---- MODULE Spec2Model ----
(***************************************************************************)
(* People registry on browser localStorage: the Person model with its     *)
(* field validators, the DataBackup utility and the DataManager that owns  *)
(* the live collection.  A JavaScript string is a TLA+ string; Chars gives *)
(* its characters, so that trimming, upper-casing, digit stripping,        *)
(* parsing and the checksum are computed character by character as the     *)
(* code does.                                                              *)
(***************************************************************************)
EXTENDS Integers, Sequences, FiniteSets, TLC

VARIABLES persons, store, backupStore, now, nextId, nextBackupId, failures, last,
          app, jobs

vars == <<persons, store, backupStore, now, nextId, nextBackupId, failures, last,
          app, jobs>>

(***************************************************************************)
(* Bounds of the model.                                                    *)
(***************************************************************************)
\* records the live collection may hold before addPerson is no longer tried
MaxPersons == 2
\* ids handed out by generateId to records that entered the collection
MaxIds == 3
\* snapshots ever created (generateBackupId)
MaxBackupIds == 3
\* milliseconds the clock may advance
MaxTime == 1
\* entries of an import file
MaxImport == 2
\* writes to localStorage that may fail
MaxFailures == 1
\* calls started in one run of overlapping calls
MaxJobs == 3

\* notifications ever shown
MaxShown == 6
\* milliseconds the clock of the timers may reach
MaxClock == 10000

\* input events on the search field
MaxInputs == 3
\* milliseconds the clock may reach while the search field is typed into
MaxSearchClock == 900

\* snapshots ever created in the runs of the backup history alone
MaxSnapshots == 7

(***************************************************************************)
(* Characters.                                                             *)
(***************************************************************************)
Digits == <<"0", "1", "2", "3", "4", "5", "6", "7", "8", "9">>

LowerAlphabet == <<"a", "b", "c", "d", "e", "f", "g", "h", "i", "j", "k", "l", "m",
                   "n", "o", "p", "q", "r", "s", "t", "u", "v", "w", "x", "y", "z">>

UpperAlphabet == <<"A", "B", "C", "D", "E", "F", "G", "H", "I", "J", "K", "L", "M",
                   "N", "O", "P", "Q", "R", "S", "T", "U", "V", "W", "X", "Y", "Z">>

Range(s) == {s[i] : i \in 1..Len(s)}

DigitChars == Range(Digits)

IsDigit(c) == c \in DigitChars

\* \p{L} over the characters of the model
Letters == Range(LowerAlphabet \o UpperAlphabet)

IsLetter(c) == c \in Letters

\* \s over the characters of the model
IsSpace(c) == c = " "

DigitValue(c) == (CHOOSE i \in 1..10 : Digits[i] = c) - 1

\* parseInt(s, 10) of the digits s
RECURSIVE parseInt(_)
parseInt(s) ==
    IF s = <<>> THEN 0
    ELSE 10 * parseInt(SubSeq(s, 1, Len(s) - 1)) + DigitValue(s[Len(s)])

\* String.prototype.toUpperCase, character by character
toUpperCase(s) ==
    [i \in 1..Len(s) |->
        IF s[i] \in Range(LowerAlphabet)
        THEN UpperAlphabet[CHOOSE k \in 1..26 : LowerAlphabet[k] = s[i]]
        ELSE s[i]]

\* String.prototype.toLowerCase, character by character
toLowerCase(s) ==
    [i \in 1..Len(s) |->
        IF s[i] \in Range(UpperAlphabet)
        THEN LowerAlphabet[CHOOSE k \in 1..26 : UpperAlphabet[k] = s[i]]
        ELSE s[i]]

\* String.prototype.trim, character by character
trim(s) ==
    LET idx == {i \in 1..Len(s) : ~IsSpace(s[i])}
    IN  IF idx = {} THEN <<>>
        ELSE SubSeq(s, CHOOSE i \in idx : \A j \in idx : i <= j,
                       CHOOSE i \in idx : \A j \in idx : j <= i)

\* the digits of n, zero-padded to width
RECURSIVE Pad(_, _)
Pad(n, width) ==
    IF width = 0 THEN <<>> ELSE Pad(n \div 10, width - 1) \o <<Digits[(n % 10) + 1]>>

\* the string whose characters are cs
RECURSIVE String(_)
String(cs) ==
    IF cs = <<>> THEN "" ELSE String(SubSeq(cs, 1, Len(cs) - 1)) \o cs[Len(cs)]

(***************************************************************************)
(* The strings the form, the import files, the clock and the id generators *)
(* supply.                                                                 *)
(***************************************************************************)
NameAna == "Ana Lima"

NameShort == "A"

NameBob == "bob"

DateValid == "10/05/1995"

DateInvalid == "31/02/2023"

PhoneA == "(11) 99999-9999"

PhoneB == "11999999999"

PhoneShort == "123456789"

EmailAna == "ana@x.com"

EmailBob == "bob@x.com"

EmailBad == "user@.com"

\* two names, both accepted by validateName, that calculateChecksum cannot
\* tell apart: 31 * 65 + 76 = 31 * 66 + 45
NameAl == "AL"

NameBHyphen == "B-"

\* a timestamp string that new Date cannot parse
Garbage == "abc"

\* an id carried by the entries of an import file
ImportedId == "person_x"

\* the day Today
DateToday == "06/11/2026"

\* the day after Today
DateTomorrow == "07/11/2026"

\* the day 120 years before Today
Date120YearsAgo == "06/11/1906"

\* a birth date of someone who is 120 and turns 121 later in the year of Today
DateAged120 == "01/12/1905"

\* a birth date of someone who is 121
DateAged121 == "01/01/1905"

\* a 29th of February
DateLeapDay == "29/02/2024"

\* area code 10
PhoneArea10 == "(10) 99999-9999"

\* area code 01
PhoneArea01 == "(01) 99999-9999"

\* area code 99
PhoneArea99 == "(99) 99999-9999"

\* ten digits
PhoneTenDigits == "1199999999"

\* twelve digits
PhoneTwelveDigits == "119999999999"

\* a search query: lower-case, part of a nome and of an email
QueryAna == "ana"

\* a search query: upper-case, part of a nome
QueryLima == "LIMA"

\* a search query: with a leading space
QuerySpaced == " ana"

\* a search query: part of a formatted telefone
QueryArea == "(11)"

\* a search query: a space alone
QueryBlank == " "

\* the id of a second exported record
IdBea == "person_y"

\* the id of a third exported record
IdCid == "person_z"

\* a third email
EmailCid == "cid@x.com"

\* an email no record has
EmailNew == "new@x.com"

\* a telefone no record has
PhoneNew == "(21) 98888-7777"

\* the version createBackup and exportToFile stamp
Version == "1.0"

\* the characters of the strings above, and of the empty string
Typed ==
    {<<>>,
     <<"A", "n", "a", " ", "L", "i", "m", "a">>,
     <<"A">>,
     <<"b", "o", "b">>,
     <<"1", "0", "/", "0", "5", "/", "1", "9", "9", "5">>,
     <<"3", "1", "/", "0", "2", "/", "2", "0", "2", "3">>,
     <<"(", "1", "1", ")", " ", "9", "9", "9", "9", "9", "-", "9", "9", "9", "9">>,
     <<"1", "1", "9", "9", "9", "9", "9", "9", "9", "9", "9">>,
     <<"1", "2", "3", "4", "5", "6", "7", "8", "9">>,
     <<"a", "n", "a", "@", "x", ".", "c", "o", "m">>,
     <<"b", "o", "b", "@", "x", ".", "c", "o", "m">>,
     <<"u", "s", "e", "r", "@", ".", "c", "o", "m">>,
     <<"a", "b", "c">>,
     <<"p", "e", "r", "s", "o", "n", "_", "x">>,
     <<"1", ".", "0">>,
     <<"A", "L">>,
     <<"B", "-">>,
     <<"0", "6", "/", "1", "1", "/", "2", "0", "2", "6">>,
     <<"0", "7", "/", "1", "1", "/", "2", "0", "2", "6">>,
     <<"0", "6", "/", "1", "1", "/", "1", "9", "0", "6">>,
     <<"0", "1", "/", "1", "2", "/", "1", "9", "0", "5">>,
     <<"0", "1", "/", "0", "1", "/", "1", "9", "0", "5">>,
     <<"2", "9", "/", "0", "2", "/", "2", "0", "2", "4">>,
     <<"(", "1", "0", ")", " ", "9", "9", "9", "9", "9", "-", "9", "9", "9", "9">>,
     <<"(", "9", "9", ")", " ", "9", "9", "9", "9", "9", "-", "9", "9", "9", "9">>,
     <<"(", "0", "1", ")", " ", "9", "9", "9", "9", "9", "-", "9", "9", "9", "9">>,
     <<"p", "e", "r", "s", "o", "n", "_", "y">>,
     <<"p", "e", "r", "s", "o", "n", "_", "z">>,
     <<"c", "i", "d", "@", "x", ".", "c", "o", "m">>,
     <<"n", "e", "w", "@", "x", ".", "c", "o", "m">>,
     <<"(", "2", "1", ")", " ", "9", "8", "8", "8", "8", "-", "7", "7", "7", "7">>,
     <<"1", "1", "9", "9", "9", "9", "9", "9", "9", "9">>,
     <<"1", "1", "9", "9", "9", "9", "9", "9", "9", "9", "9", "9">>,
     <<"a", "n", "a">>,
     <<"L", "I", "M", "A">>,
     <<" ", "a", "n", "a">>,
     <<"(", "1", "1", ")">>,
     <<" ">>}

\* the clock's calendar day, read by new Date()
Today == [day |-> 6, month |-> 11, year |-> 2026]

\* Date.prototype.toISOString of the instant ms milliseconds after noon of
\* Today, character by character
IsoChars(ms) ==
    Pad(Today.year, 4) \o <<"-">> \o Pad(Today.month, 2) \o <<"-">> \o Pad(Today.day, 2)
        \o <<"T", "1", "2", ":", "0", "0", ":", "0", "0", ".">> \o Pad(ms, 3) \o <<"Z">>

\* "person_" + Date.now() + "_" + random: the n-th id generateId hands out
PersonIdChars(n) == <<"p", "e", "r", "s", "o", "n", "_">> \o Pad(n, 1)

\* "backup_" + Date.now() + "_" + random: the n-th id generateBackupId hands out
BackupIdChars(n) == <<"b", "a", "c", "k", "u", "p", "_">> \o Pad(n, 1)

\* the numbers of the snapshots generateBackupId can be asked to name
SnapshotNumbers == 0..(IF MaxSnapshots > MaxBackupIds THEN MaxSnapshots ELSE MaxBackupIds)

\* the characters of every string of the model
Spelled ==
    Typed \cup {toUpperCase(cs) : cs \in Typed}
          \cup {IsoChars(ms) : ms \in 0..MaxTime}
          \cup {PersonIdChars(n) : n \in 0..MaxIds}
          \cup {BackupIdChars(n) : n \in SnapshotNumbers}

\* every string of the model
Strings == {String(cs) : cs \in Spelled}

\* the characters of a string
Chars == [s \in Strings |-> CHOOSE cs \in Spelled : String(cs) = s]

\* String.prototype.toUpperCase
UpperCase == [s \in Strings |-> String(toUpperCase(Chars[s]))]

(***************************************************************************)
(* JavaScript values.  undefined and null are two values that Chars does   *)
(* not spell, so they differ from every string of the model.               *)
(***************************************************************************)
Undefined == "(undefined)"

Null == "(null)"

\* the values a field of the model can hold
Values == Strings \cup {Undefined, Null}

IsString(v) == v \in Strings

\* !v for a string-or-absent value
Falsy(v) == v = Undefined \/ v = Null \/ v = ""

\* the time value of new Date(x) for an unparseable x (NaN)
InvalidDate == -1

(***************************************************************************)
(* Person: field validators.                                               *)
(***************************************************************************)
validateName ==
    [name \in Values |->
    IF Falsy(name) \/ ~IsString(name) THEN FALSE
    ELSE LET trimmedName == trim(Chars[name])
         IN  IF Len(trimmedName) < 2 \/ Len(trimmedName) > 50 THEN FALSE
             ELSE \A i \in 1..Len(trimmedName) :
                      \/ IsLetter(trimmedName[i])
                      \/ IsSpace(trimmedName[i])
                      \/ trimmedName[i] \in {"-", "'"}]

IsLeapYear(y) == (y % 4 = 0 /\ y % 100 # 0) \/ y % 400 = 0

\* the days of a month as new Date(year, month - 1, day) counts them
DaysInMonth(m, y) ==
    IF m = 2 THEN (IF IsLeapYear(y) THEN 29 ELSE 28)
    ELSE IF m \in {4, 6, 9, 11} THEN 30 ELSE 31

\* the positions of "/" in a cleaned date
SlashPositions(s) == {i \in 1..Len(s) : s[i] = "/"}

\* null as returned by parseBrazilianDate
NoDate == <<>>

\* returns the date as <<day, month, year>>, or NoDate
parseBrazilianDate ==
    [dateString \in Values |->
    IF Falsy(dateString) \/ ~IsString(dateString) THEN NoDate
    ELSE LET cleanDate == SelectSeq(Chars[dateString], LAMBDA c : IsDigit(c) \/ c = "/")
             sl == SlashPositions(cleanDate)
         IN  IF Cardinality(sl) # 2 THEN NoDate
             ELSE LET s1 == CHOOSE i \in sl : \A j \in sl : i <= j
                      s2 == CHOOSE i \in sl : \A j \in sl : j <= i
                      dd == SubSeq(cleanDate, 1, s1 - 1)
                      mm == SubSeq(cleanDate, s1 + 1, s2 - 1)
                      yy == SubSeq(cleanDate, s2 + 1, Len(cleanDate))
                  IN  IF ~(Len(dd) \in 1..2 /\ Len(mm) \in 1..2 /\ Len(yy) = 4) THEN NoDate
                      ELSE LET day == parseInt(dd)
                               month == parseInt(mm)
                               year == parseInt(yy)
                           IN  IF day < 1 \/ day > 31 THEN NoDate
                               ELSE IF month < 1 \/ month > 12 THEN NoDate
                               ELSE IF year < 1900 \/ year > 2100 THEN NoDate
                               ELSE IF day > DaysInMonth(month, year) THEN NoDate
                               ELSE <<day, month, year>>]

\* birthDate > today, today being an instant of the day Today
DateAfterToday(d) ==
    \/ d[3] > Today.year
    \/ d[3] = Today.year /\ d[2] > Today.month
    \/ d[3] = Today.year /\ d[2] = Today.month /\ d[1] > Today.day

validateBirthDate ==
    [date \in Values |->
    IF Falsy(date) THEN FALSE
    ELSE LET birthDate == parseBrazilianDate[date]
         IN  IF birthDate = NoDate THEN FALSE
             ELSE IF DateAfterToday(birthDate) THEN FALSE
             ELSE LET age == Today.year - birthDate[3]
                  IN  ~(age > 120)]

\* validatePhone without the test of the area code
validatePhoneAnyArea ==
    [phone \in Values |->
    IF Falsy(phone) \/ ~IsString(phone) THEN FALSE
    ELSE LET cleanPhone == SelectSeq(Chars[phone], IsDigit)
         IN  ~(Len(cleanPhone) # 10 /\ Len(cleanPhone) # 11)]

validatePhone ==
    [phone \in Values |->
    IF Falsy(phone) \/ ~IsString(phone) THEN FALSE
    ELSE LET cleanPhone == SelectSeq(Chars[phone], IsDigit)
         IN  IF Len(cleanPhone) # 10 /\ Len(cleanPhone) # 11 THEN FALSE
             ELSE LET areaCode == parseInt(SubSeq(cleanPhone, 1, 2))
                  IN  ~(areaCode < 11 \/ areaCode > 99)]

\* /^[^\s@]+@[^\s@]+\.[^\s@]+$/ on the trimmed email
validateEmail ==
    [email \in Values |->
    IF Falsy(email) \/ ~IsString(email) THEN FALSE
    ELSE LET e == trim(Chars[email])
             ats == {i \in 1..Len(e) : e[i] = "@"}
         IN  /\ Cardinality(ats) = 1
             /\ \A i \in 1..Len(e) : ~IsSpace(e[i])
             /\ LET at == CHOOSE i \in ats : TRUE
                IN  /\ at > 1
                    /\ \E k \in (at + 2)..(Len(e) - 1) : e[k] = "."]

\* what the form submits: every pairing of two phones and two emails under a
\* valid name and birth date, and submissions with one or more fields wrong
FormInputs ==
    ({NameAna} \X {DateValid} \X {PhoneA, PhoneB} \X {EmailAna, EmailBob})
        \cup {<<NameShort, DateValid, PhoneA, EmailAna>>,
              <<NameAna, DateInvalid, PhoneA, EmailAna>>,
              <<NameAna, DateValid, PhoneShort, EmailAna>>,
              <<NameAna, DateValid, PhoneA, EmailBad>>,
              <<NameShort, DateInvalid, PhoneShort, EmailBad>>}

(***************************************************************************)
(* Dates.  A Date is its time value: the milliseconds the clock has        *)
(* advanced since noon of Today, or InvalidDate.                           *)
(***************************************************************************)
toISOString == [ms \in 0..MaxTime |-> String(IsoChars(ms))]

\* Date.prototype.toJSON: null for an invalid date
DateToJSON(d) == IF d = InvalidDate THEN Null ELSE toISOString[d]

\* new Date(string): the time value, InvalidDate when the string does not parse
DateParse ==
    [s \in Values |->
    IF ~IsString(s) THEN InvalidDate
    ELSE LET cs == Chars[s]
         IN  IF /\ Len(cs) = 24
                /\ SubSeq(cs, 1, 20) = SubSeq(IsoChars(0), 1, 20)
                /\ \A i \in 21..23 : IsDigit(cs[i])
                /\ cs[24] = "Z"
             THEN parseInt(SubSeq(cs, 21, 23))
             ELSE InvalidDate]

(***************************************************************************)
(* Person.                                                                 *)
(***************************************************************************)
\* the n-th id generateId hands out
generateId == [n \in 0..MaxIds |-> String(PersonIdChars(n))]

\* a constructor that keeps nome as it was typed
PersonAsTyped(nome, dataNascimento, telefone, email, id, t) ==
    [id |-> id,
     nome |-> IF Falsy(nome) THEN "" ELSE nome,
     dataNascimento |-> dataNascimento,
     telefone |-> telefone,
     email |-> email,
     createdAt |-> t,
     updatedAt |-> t]

\* new Person(nome, dataNascimento, telefone, email) at time t, drawing id
Person(nome, dataNascimento, telefone, email, id, t) ==
    [id |-> id,
     nome |-> IF Falsy(nome) THEN "" ELSE UpperCase[nome],
     dataNascimento |-> dataNascimento,
     telefone |-> telefone,
     email |-> email,
     createdAt |-> t,
     updatedAt |-> t]

ErrNome == [field |-> "nome",
            message |-> "Nome deve conter apenas letras, espacos e caracteres validos (2-50 caracteres)"]

ErrDataNascimento == [field |-> "dataNascimento",
                      message |-> "Data de nascimento invalida ou pessoa muito idosa"]

ErrTelefone == [field |-> "telefone",
                message |-> "Telefone deve estar no formato brasileiro valido"]

ErrEmail == [field |-> "email", message |-> "Email deve ter um formato valido"]

\* validate that returns at the first failing field
validateFirstOnly(p) ==
    IF ~validateName[p.nome] THEN <<ErrNome>>
    ELSE IF ~validateBirthDate[p.dataNascimento] THEN <<ErrDataNascimento>>
    ELSE IF ~validatePhone[p.telefone] THEN <<ErrTelefone>>
    ELSE IF ~validateEmail[p.email] THEN <<ErrEmail>>
    ELSE <<>>

\* Person.validate: the errors of the ValidationResult (isValid is errors = <<>>)
validate(p) ==
    (IF ~validateName[p.nome] THEN <<ErrNome>> ELSE <<>>)
        \o (IF ~validateBirthDate[p.dataNascimento] THEN <<ErrDataNascimento>> ELSE <<>>)
        \o (IF ~validatePhone[p.telefone] THEN <<ErrTelefone>> ELSE <<>>)
        \o (IF ~validateEmail[p.email] THEN <<ErrEmail>> ELSE <<>>)

isValid(p) == validate(p) = <<>>

\* Person.toJSON followed by JSON.stringify and JSON.parse: the plain object
\* that reaches storage, its dates as ISO strings
toJSON(p) ==
    [id |-> p.id,
     nome |-> p.nome,
     dataNascimento |-> p.dataNascimento,
     telefone |-> p.telefone,
     email |-> p.email,
     createdAt |-> DateToJSON(p.createdAt),
     updatedAt |-> DateToJSON(p.updatedAt)]

\* fromJSON that leaves the new Person the id its constructor drew
fromJSONFresh(data, freshId, t) ==
    LET person == Person(data.nome, data.dataNascimento, data.telefone, data.email,
                         freshId, t)
    IN  [person EXCEPT
            !.createdAt = IF Falsy(data.createdAt) THEN person.createdAt
                          ELSE DateParse[data.createdAt],
            !.updatedAt = IF Falsy(data.updatedAt) THEN person.updatedAt
                          ELSE DateParse[data.updatedAt]]

\* Person.fromJSON(data) at time t, the constructor drawing freshId
fromJSON(data, freshId, t) ==
    LET person == Person(data.nome, data.dataNascimento, data.telefone, data.email,
                         freshId, t)
    IN  [person EXCEPT
            !.id = IF Falsy(data.id) THEN person.id ELSE data.id,
            !.createdAt = IF Falsy(data.createdAt) THEN person.createdAt
                          ELSE DateParse[data.createdAt],
            !.updatedAt = IF Falsy(data.updatedAt) THEN person.updatedAt
                          ELSE DateParse[data.updatedAt]]

(***************************************************************************)
(* JSON.stringify of a data array: the characters calculateChecksum reads. *)
(***************************************************************************)
KeyNames == <<<<"i", "d">>,
              <<"n", "o", "m", "e">>,
              <<"d", "a", "t", "a", "N", "a", "s", "c", "i", "m", "e", "n", "t", "o">>,
              <<"t", "e", "l", "e", "f", "o", "n", "e">>,
              <<"e", "m", "a", "i", "l">>,
              <<"c", "r", "e", "a", "t", "e", "d", "A", "t">>,
              <<"u", "p", "d", "a", "t", "e", "d", "A", "t">>>>

\* the value of the k-th property of a plain record
Property(rec, k) ==
    CASE k = 1 -> rec.id
      [] k = 2 -> rec.nome
      [] k = 3 -> rec.dataNascimento
      [] k = 4 -> rec.telefone
      [] k = 5 -> rec.email
      [] k = 6 -> rec.createdAt
      [] k = 7 -> rec.updatedAt

RECURSIVE Join(_, _)
Join(parts, sep) ==
    IF parts = <<>> THEN <<>>
    ELSE IF Len(parts) = 1 THEN parts[1]
    ELSE parts[1] \o sep \o Join(Tail(parts), sep)

\* a string or null as JSON text
StringifyValue(v) ==
    IF v = Null THEN <<"n", "u", "l", "l">> ELSE <<"\"">> \o Chars[v] \o <<"\"">>

\* an object as JSON text; properties that are undefined are left out
StringifyRecord(rec) ==
    LET present == SelectSeq(<<1, 2, 3, 4, 5, 6, 7>>, LAMBDA k : Property(rec, k) # Undefined)
        member(k) == <<"\"">> \o KeyNames[k] \o <<"\"", ":">> \o StringifyValue(Property(rec, k))
    IN  <<"{">> \o Join([i \in 1..Len(present) |-> member(present[i])], <<",">>) \o <<"}">>

StringifyData(data) ==
    <<"[">> \o Join([i \in 1..Len(data) |-> StringifyRecord(data[i])], <<",">>) \o <<"]">>

(***************************************************************************)
(* DataBackup.calculateChecksum.  The 32-bit hash is kept as two 16-bit    *)
(* halves <<high, low>> of its two's-complement bit pattern.               *)
(***************************************************************************)
\* the printable characters from " " (32) to "[" (91)
AsciiFromSpace == <<" ", "!", "\"", "#", "$", "%", "&", "'", "(", ")", "*", "+", ",",
                  "-", ".", "/", "0", "1", "2", "3", "4", "5", "6", "7", "8", "9", ":",
                  ";", "<", "=", ">", "?", "@", "A", "B", "C", "D", "E", "F", "G", "H",
                  "I", "J", "K", "L", "M", "N", "O", "P", "Q", "R", "S", "T", "U", "V",
                  "W", "X", "Y", "Z", "[">>

\* "]" (93) to "_" (95)
AsciiFromBracket == <<"]", "^", "_">>

\* "a" (97) to "~" (126)
AsciiFromLowerA == <<"a", "b", "c", "d", "e", "f", "g", "h", "i", "j", "k", "l", "m", "n",
                   "o", "p", "q", "r", "s", "t", "u", "v", "w", "x", "y", "z", "{", "|",
                   "}", "~">>

\* String.prototype.charCodeAt
charCodeAt ==
    [c \in Range(AsciiFromSpace \o AsciiFromBracket \o AsciiFromLowerA) |->
        IF c \in Range(AsciiFromSpace)
        THEN 31 + (CHOOSE i \in 1..Len(AsciiFromSpace) : AsciiFromSpace[i] = c)
        ELSE IF c \in Range(AsciiFromBracket)
        THEN 92 + (CHOOSE i \in 1..Len(AsciiFromBracket) : AsciiFromBracket[i] = c)
        ELSE 96 + (CHOOSE i \in 1..Len(AsciiFromLowerA) : AsciiFromLowerA[i] = c)]

Half == 65536

\* hash = (hash << 5) - hash + char; hash = hash & hash
HashStep(hash, char) ==
    LET low == hash[2] * 31 + char
        high == hash[1] * 31 + (low \div Half)
    IN  <<high % Half, low % Half>>

\* the loop of calculateChecksum over str[from..to], entered with hash h0
HashRange(str, h0, from, to) ==
    LET f[i \in (from - 1)..to] ==
            IF i < from THEN h0 ELSE HashStep(f[i - 1], charCodeAt[str[i]])
    IN  f[to]

\* characters hashed per stretch of the loop (keeps the recursion shallow)
Stretch == 16

\* the loop of calculateChecksum over the first k stretches of str
RECURSIVE HashUpTo(_, _)
HashUpTo(str, k) ==
    IF k = 0 THEN <<0, 0>>
    ELSE [h0 \in (0..(Half - 1)) \X (0..(Half - 1)) |->
             HashRange(str, h0, (k - 1) * Stretch + 1,
                       IF k * Stretch < Len(str) THEN k * Stretch ELSE Len(str))
         ][HashUpTo(str, k - 1)]

\* the loop of calculateChecksum over the whole of str
Hash(str) == HashUpTo(str, (Len(str) + Stretch - 1) \div Stretch)

\* u * v modulo 2^16, for halves u and v
MulHalf(u, v) == ((u % 256) * v + (((u \div 256) * v) % 256) * 256) % Half

\* a * b modulo 2^32
Mul32(a, b) ==
    LET x == (a[2] % 256) * b[2]
        y == (a[2] \div 256) * b[2]
        low == x + (y % 256) * 256
        carry == (low \div Half) + (y \div 256)
    IN  <<(carry + MulHalf(a[1], b[2]) + MulHalf(a[2], b[1])) % Half, low % Half>>

\* a + b modulo 2^32
Add32(a, b) ==
    LET low == a[2] + b[2]
    IN  <<(a[1] + b[1] + (low \div Half)) % Half, low % Half>>

\* 31^n modulo 2^32: what n steps of the loop multiply the hash by
RECURSIVE Pow31(_)
Pow31(n) ==
    IF n = 0 THEN <<0, 1>>
    ELSE IF n % 2 = 0 THEN Mul32(Pow31(n \div 2), Pow31(n \div 2))
    ELSE HashStep(Pow31(n - 1), 0)

\* the loop run over str from hash 0, with the factor Len(str) steps apply:
\* entered with hash h, the loop over str ends with h * factor + hash
Hashed(str) == [hash |-> Hash(str), factor |-> Pow31(Len(str))]

\* the loop entered with hash h and run over the text that part hashes
HashOver(h, part) == Add32(Mul32(h, part.factor), part.hash)

HexDigits == <<"0", "1", "2", "3", "4", "5", "6", "7", "8", "9", "a", "b", "c", "d", "e", "f">>

RECURSIVE Hex(_)
Hex(n) == IF n < 16 THEN <<HexDigits[n + 1]>> ELSE Hex(n \div 16) \o <<HexDigits[(n % 16) + 1]>>

\* the four hexadecimal digits of a half
Hex4(n) == [i \in 1..4 |-> HexDigits[((n \div (16 ^ (4 - i))) % 16) + 1]]

\* Number.prototype.toString(16) of the signed 32-bit value with bit pattern hash
toString16(hash) ==
    LET negative == hash[1] >= Half \div 2
        mag == IF ~negative THEN hash
               ELSE IF hash[2] = 0 THEN <<Half - hash[1], 0>>
               ELSE <<Half - 1 - hash[1], Half - hash[2]>>
        digits == IF mag[1] = 0 THEN Hex(mag[2]) ELSE Hex(mag[1]) \o Hex4(mag[2])
    IN  String((IF negative THEN <<"-">> ELSE <<>>) \o digits)

\* a record as exportData wrote it: id and both timestamps present
EntryAna ==
    [id |-> ImportedId, nome |-> NameAna, dataNascimento |-> DateValid,
     telefone |-> PhoneA, email |-> EmailAna,
     createdAt |-> toISOString[0], updatedAt |-> toISOString[0]]

\* a hand-written record: no id, no timestamps
EntryBob ==
    [id |-> Undefined, nome |-> NameBob, dataNascimento |-> DateValid,
     telefone |-> PhoneB, email |-> EmailBob,
     createdAt |-> Undefined, updatedAt |-> Undefined]

\* a record whose birth date is no calendar date
EntryBadDate ==
    [id |-> Undefined, nome |-> NameBob, dataNascimento |-> DateInvalid,
     telefone |-> PhoneB, email |-> EmailBob,
     createdAt |-> Undefined, updatedAt |-> Undefined]

\* a record whose createdAt is not a date string
EntryBadStamp ==
    [id |-> Undefined, nome |-> NameBob, dataNascimento |-> DateValid,
     telefone |-> PhoneB, email |-> EmailBob,
     createdAt |-> Garbage, updatedAt |-> Undefined]

\* a record without an email
EntryNoEmail == [EntryBob EXCEPT !.email = Undefined]

ImportEntries == {EntryAna, EntryBob, EntryBadDate, EntryBadStamp}

\* the entries of the files picked for importFromFile
FileEntries == {EntryAna, EntryBob, EntryBadStamp, EntryNoEmail}

\* the stored form of a record named AL, and the same record renamed B-
RecordAl == toJSON(Person(NameAl, DateValid, PhoneA, EmailAna, generateId[0], 0))

RecordBHyphen == [RecordAl EXCEPT !.nome = NameBHyphen]

\* the plain records toJSON yields for the records the form and the import
\* files of the model can put into the collection, the two above, and the
\* entries of the files
StoredRecords ==
    {RecordAl, RecordBHyphen} \cup ImportEntries \cup FileEntries \cup
    {toJSON(p) : p \in [id : {generateId[n] : n \in 0..MaxIds} \cup {ImportedId},
                        nome : {UpperCase[NameAna], UpperCase[NameBob]},
                        dataNascimento : {DateValid, DateInvalid},
                        telefone : {PhoneA, PhoneB},
                        email : {EmailAna, EmailBob},
                        createdAt : (0..MaxTime) \cup {InvalidDate},
                        updatedAt : (0..MaxTime) \cup {InvalidDate}]}

\* the loop over the text of each of these records, run once
RecordHashes == [rec \in StoredRecords |-> Hashed(StringifyRecord(rec))]

\* the loop over the text of one record
HashedRecord(rec) ==
    IF rec \in StoredRecords THEN RecordHashes[rec] ELSE Hashed(StringifyRecord(rec))

\* calculateChecksum(data): the loop over JSON.stringify(data), that is over
\* "[", the records' texts with "," between them, and "]"; hash.toString(16)
calculateChecksum(data) ==
    LET f[i \in 0..Len(data)] ==
            IF i = 0 THEN HashStep(<<0, 0>>, charCodeAt["["])
            ELSE HashOver(IF i = 1 THEN f[0] ELSE HashStep(f[i - 1], charCodeAt[","]),
                          HashedRecord(data[i]))
    IN  toString16(HashStep(f[Len(data)], charCodeAt["]"]))

(***************************************************************************)
(* DataBackup: the snapshot history under the key backup_listaPessoas.     *)
(***************************************************************************)
maxBackups == 5

\* the n-th id generateBackupId hands out
generateBackupId == [n \in SnapshotNumbers |-> String(BackupIdChars(n))]

\* the outcomes of one localStorage.setItem
WriteOutcomes == {"ok", "QuotaExceededError", "Error"}

\* createBackup that snapshots an empty array whatever it is given
createBackupEmptied(backups, data, n, t) ==
    LET backup == [id |-> generateBackupId[n],
                   timestamp |-> toISOString[t],
                   data |-> <<>>,
                   version |-> Version,
                   checksum |-> calculateChecksum(<<>>)]
        existingBackups == <<backup>> \o backups
    IN  IF Len(existingBackups) > maxBackups
        THEN SubSeq(existingBackups, 1, maxBackups)
        ELSE existingBackups

\* createBackup with push in place of unshift
createBackupPushed(backups, data, n, t) ==
    LET backup == [id |-> generateBackupId[n],
                   timestamp |-> toISOString[t],
                   data |-> data,
                   version |-> Version,
                   checksum |-> calculateChecksum(data)]
        existingBackups == backups \o <<backup>>
    IN  IF Len(existingBackups) > maxBackups
        THEN SubSeq(existingBackups, 1, maxBackups)
        ELSE existingBackups

\* createBackup(data): the history it writes when setItem succeeds
createBackup(backups, data, n, t) ==
    LET backup == [id |-> generateBackupId[n],
                   timestamp |-> toISOString[t],
                   data |-> data,
                   version |-> Version,
                   checksum |-> calculateChecksum(data)]
        existingBackups == <<backup>> \o backups
    IN  IF Len(existingBackups) > maxBackups
        THEN SubSeq(existingBackups, 1, maxBackups)
        ELSE existingBackups

\* shouldCreateBackup that answers yes whatever the data
shouldCreateBackupAlways(currentData, lastBackupData) == TRUE

shouldCreateBackup(currentData, lastBackupData) ==
    IF Len(currentData) # Len(lastBackupData) THEN TRUE
    ELSE calculateChecksum(currentData) # calculateChecksum(lastBackupData)

\* whether autoBackup(data) calls createBackup
autoBackupNeeded(backups, data) ==
    backups = <<>> \/ shouldCreateBackup(data, backups[1].data)

\* autoBackup(data): the history afterwards; a failed write is swallowed
autoBackup(backups, data, n, t, write) ==
    IF autoBackupNeeded(backups, data) /\ write = "ok"
    THEN createBackup(backups, data, n, t)
    ELSE backups

(***************************************************************************)
(* Import files: the entries a file's data array may hold.                 *)
(***************************************************************************)
ImportFiles == UNION {[1..n -> ImportEntries] : n \in 0..MaxImport}

\* validateImportData(data).errors: one entry per failed check, by record number
validateImportData(data) ==
    LET itemErrors(i) ==
            (IF Falsy(data[i].nome) \/ ~IsString(data[i].nome)
                THEN <<[record |-> i, field |-> "nome"]>> ELSE <<>>)
            \o (IF Falsy(data[i].email) \/ ~IsString(data[i].email)
                THEN <<[record |-> i, field |-> "email"]>> ELSE <<>>)
            \o (IF Falsy(data[i].telefone) \/ ~IsString(data[i].telefone)
                THEN <<[record |-> i, field |-> "telefone"]>> ELSE <<>>)
            \o (IF Falsy(data[i].dataNascimento)
                THEN <<[record |-> i, field |-> "dataNascimento"]>> ELSE <<>>)
        all[i \in 0..Len(data)] == IF i = 0 THEN <<>> ELSE all[i - 1] \o itemErrors(i)
    IN  all[Len(data)]

\* the ids the constructor draws while data is mapped through fromJSON: the
\* i-th record takes the next id not yet kept by a record before it
FreshIdFor(data, i, n) ==
    generateId[n + Cardinality({j \in 1..(i - 1) : Falsy(data[j].id)})]

\* data.map(Person.fromJSON) at time t
mapFromJSON(data, n, t) ==
    [i \in 1..Len(data) |-> fromJSON(data[i], FreshIdFor(data, i, n), t)]

\* the ids of the counter that data.map(Person.fromJSON) keeps
IdsKept(data) == Cardinality({j \in 1..Len(data) : Falsy(data[j].id)})

\* persons.map(person => person.toJSON())
mapToJSON(list) == [i \in 1..Len(list) |-> toJSON(list[i])]

\* validateImportData(data).invalidRecords and .validRecords
invalidRecords(data) ==
    Cardinality({i \in 1..Len(data) :
                    \E k \in 1..Len(validateImportData(data)) :
                        validateImportData(data)[k].record = i})

validRecords(data) ==
    Cardinality({i \in 1..Len(data) :
                    \A k \in 1..Len(validateImportData(data)) :
                        validateImportData(data)[k].record # i})

\* a file the user picks.  json: its type is application/json or its name
\* ends in .json; text: "object" when JSON.parse of its content yields an
\* object, "garbage" when JSON.parse throws; shape: "array" when the object
\* has a data property that is an array, "none" when it has none; data: that
\* array; checksum: the object's checksum property
File(json, text, shape, data, checksum) ==
    [json |-> json, text |-> text, shape |-> shape, data |-> data,
     checksum |-> checksum]

\* the file of a call that takes none
NoFile == File(FALSE, "garbage", "none", <<>>, Undefined)

\* a checksum no data array of the model has
WrongChecksum == "abc"

\* importFromFile without the comparison of the checksums
importFromFileOutcomeUnverified(file) ==
    IF ~file.json THEN "VALIDATION_ERROR"
    ELSE IF file.text # "object" THEN "VALIDATION_ERROR"
    ELSE IF file.shape # "array" THEN "VALIDATION_ERROR"
    ELSE "ok"

\* importFromFile(file): "ok" when the promise resolves, the type of the
\* AppError when it rejects
importFromFileOutcome(file) ==
    IF ~file.json THEN "VALIDATION_ERROR"
    ELSE IF file.text # "object" THEN "VALIDATION_ERROR"
    ELSE IF file.shape # "array" THEN "VALIDATION_ERROR"
    ELSE IF ~Falsy(file.checksum) /\ calculateChecksum(file.data) # file.checksum
    THEN "STORAGE_ERROR"
    ELSE "ok"

\* importFromFile(file): what the promise resolves with
importFromFile(file) == file.data

\* exportToFile(data): the file written
exportToFile(data) == File(TRUE, "object", "array", data, calculateChecksum(data))

\* DataManager.importData(file): "ok" or the type of the AppError
importDataOutcome(file) ==
    IF importFromFileOutcome(file) # "ok" THEN importFromFileOutcome(file)
    ELSE IF validateImportData(importFromFile(file)) # <<>> THEN "VALIDATION_ERROR"
    ELSE "ok"

(***************************************************************************)
(* DataManager.                                                            *)
(***************************************************************************)
\* the value of localStorage.getItem("listaPessoas"): absent, or the text of
\* a data array.  fault is "none" for a text savePersons wrote; a text edited
\* from outside the program can have the fault "syntax" (JSON.parse throws),
\* "shape" (it parses to something that is no array) or "entry" (an element
\* of the array is null)
NoItem == [present |-> FALSE, data |-> <<>>, fault |-> "none"]

Item(data) == [present |-> TRUE, data |-> data, fault |-> "none"]

ItemFaults == {"syntax", "shape", "entry"}

\* isDuplicate comparing emails only
isDuplicateByEmail(list, person, excludeIndex) ==
    \E i \in 1..Len(list) :
        /\ i - 1 # excludeIndex
        /\ list[i].email = person.email

\* isDuplicate that does not skip excludeIndex
isDuplicateAnywhere(list, person, excludeIndex) ==
    \E i \in 1..Len(list) :
        \/ list[i].email = person.email
        \/ list[i].telefone = person.telefone

\* some(existingPerson, index): index counts from 0, excludeIndex = -1 for none
isDuplicate(list, person, excludeIndex) ==
    \E i \in 1..Len(list) :
        /\ i - 1 # excludeIndex
        /\ \/ list[i].email = person.email
           \/ list[i].telefone = person.telefone

\* index < 0 || index >= this.persons.length
IndexOutOfRange(list, index) == index < 0 \/ index >= Len(list)

\* updatedRecord without the line that restores createdAt
updatedRecordRestamped(originalPerson, updatedPerson, t) ==
    [updatedPerson EXCEPT !.id = originalPerson.id, !.updatedAt = t]

\* updatePerson: the record stored at index, stamped at time t
updatedRecord(originalPerson, updatedPerson, t) ==
    [updatedPerson EXCEPT !.id = originalPerson.id,
                          !.createdAt = originalPerson.createdAt,
                          !.updatedAt = t]

\* this.persons.splice(index, 1)
splice(list, index) ==
    [i \in 1..(Len(list) - 1) |-> IF i <= index THEN list[i] ELSE list[i + 1]]

\* loadPersons that keeps the records read before the one that throws
loadPersonsKeeping(item, n, t) ==
    IF item.present THEN mapFromJSON(item.data, n, t) ELSE <<>>

\* loadPersons at time t, the constructors drawing ids from n on: this.persons
\* afterwards
loadPersons(item, n, t) ==
    IF item.present /\ item.fault = "none" THEN mapFromJSON(item.data, n, t) ELSE <<>>

\* loadPersons: "ok", or the type of the AppError it throws
loadPersonsOutcome(item) ==
    IF item.present /\ item.fault # "none" THEN "STORAGE_ERROR" ELSE "ok"

\* savePersons: the history autoBackup leaves, n snapshots having been made
savedBackups(backups, list, n, writeBackup) ==
    autoBackup(backups, mapToJSON(list), n, now, writeBackup)

\* savePersons: the item under listaPessoas after setItem
savedStore(list, writeStore) ==
    IF writeStore = "ok" THEN Item(mapToJSON(list)) ELSE store

\* savePersons: "ok", or the type of the AppError it throws
saveOutcome(writeStore) ==
    IF writeStore = "ok" THEN "ok"
    ELSE IF writeStore = "QuotaExceededError" THEN "STORAGE_QUOTA_ERROR"
    ELSE "STORAGE_ERROR"

NoPerson == Person("", "", "", "", "", 0)

\* the call whose promise has just settled: its operation and arguments, its
\* outcome ("ok" or the AppError's type), the AppError's details.errors, how
\* its setItem on listaPessoas ended ("none" if it made none), and what the
\* collection, the item and the history were when it was made; data is the
\* array the call was given or returns, and file the file it was given, for
\* the calls that take or return one
Call(op, index, person, outcome, errors, write) ==
    [op |-> op, index |-> index, person |-> person, outcome |-> outcome,
     errors |-> errors, write |-> write, persons |-> persons, store |-> store,
     backupStore |-> backupStore, data |-> <<>>, file |-> NoFile]

\* this.currentEditIndex = null
NoEdit == -1

\* this.lastDeletedPerson = null
NoDeletion == [person |-> NoPerson, index |-> -1]

\* this.currentResolve = null; otherwise the number, among the promises show
\* has returned, of the one whose resolve it holds
NoResolve == 0

\* no call is being reported
Idle == [op |-> "none", index |-> -1, person |-> NoPerson, outcome |-> "ok",
         errors |-> <<>>, write |-> "none", persons |-> <<>>, store |-> NoItem,
         backupStore |-> <<>>, data |-> <<>>, file |-> NoFile]

\* the writes among ws that failed
Failed(ws) == Cardinality({i \in 1..Len(ws) : ws[i] # "ok"})

\* a call that throws before it changes anything
Rejected(op, index, person, outcome, errors) ==
    /\ last' = Call(op, index, person, outcome, errors, "none")
    /\ UNCHANGED <<persons, store, backupStore, now, nextId, nextBackupId, failures,
                   app, jobs>>

\* savePersons with an autoBackup that lets the refused write through: the
\* save is abandoned with a STORAGE_ERROR before listaPessoas is written
SaveBackupThrows(op, index, person, list, idsKept, writeBackup, writeStore, outcome) ==
    /\ failures + Failed(<<writeBackup, writeStore>>) <= MaxFailures
    /\ persons' = list
    /\ backupStore' = savedBackups(backupStore, list, nextBackupId, writeBackup)
    /\ store' = IF writeBackup = "ok" THEN savedStore(list, writeStore) ELSE store
    /\ nextId' = nextId + idsKept
    /\ nextBackupId' = IF backupStore' # backupStore THEN nextBackupId + 1 ELSE nextBackupId
    /\ failures' = failures + Failed(<<writeBackup, writeStore>>)
    /\ last' = Call(op, index, person,
                    IF writeBackup = "ok" THEN outcome ELSE "STORAGE_ERROR",
                    <<>>, writeStore)

\* the tail shared by every mutating method: this.persons is list, then
\* await this.savePersons()
Save(op, index, person, list, idsKept, writeBackup, writeStore, outcome) ==
    /\ failures + Failed(<<writeBackup, writeStore>>) <= MaxFailures
    /\ persons' = list
    /\ backupStore' = savedBackups(backupStore, list, nextBackupId, writeBackup)
    /\ store' = savedStore(list, writeStore)
    /\ nextId' = nextId + idsKept
    /\ nextBackupId' = IF backupStore' # backupStore THEN nextBackupId + 1 ELSE nextBackupId
    /\ failures' = failures + Failed(<<writeBackup, writeStore>>)
    /\ last' = Call(op, index, person, outcome, <<>>, writeStore)

\* the same, called by a method of DataManager from outside the App
Saved(op, index, person, list, idsKept, writeBackup, writeStore, outcome) ==
    /\ Save(op, index, person, list, idsKept, writeBackup, writeStore, outcome)
    /\ UNCHANGED <<now, app, jobs>>

Init ==
    /\ persons = <<>>
    /\ store = NoItem
    /\ backupStore = <<>>
    /\ now = 0
    /\ nextId = 0
    /\ nextBackupId = 0
    /\ failures = 0
    /\ last = Idle
    /\ app = [lastDeletedPerson |-> NoDeletion, currentEditIndex |-> NoEdit,
              editing |-> NoPerson, notifications |-> <<>>, shown |-> 0,
              searchTimeout |-> 0, inputs |-> <<>>, renders |-> <<>>,
              isOpen |-> FALSE, currentResolve |-> NoResolve]
    /\ jobs = <<>>

\* the clock advances by a millisecond
Tick ==
    /\ last = Idle
    /\ now < MaxTime
    /\ now' = now + 1
    /\ UNCHANGED <<persons, store, backupStore, nextId, nextBackupId, failures, last,
                   app, jobs>>

\* the caller has taken the result of the call; the next call can be made
Settle ==
    /\ last # Idle
    /\ last' = Idle
    /\ UNCHANGED <<persons, store, backupStore, now, nextId, nextBackupId, failures,
                   app, jobs>>

HasRoom == last = Idle /\ nextId < MaxIds /\ nextBackupId < MaxBackupIds

\* the outcomes of a write to the backup key: done, or refused
BackupWrites == {"ok", "QuotaExceededError"}

\* addPerson without its validation step
addPersonUnvalidated(person) ==
    /\ HasRoom
    /\ IF isDuplicate(persons, person, -1)
       THEN Rejected("addPerson", -1, person, "DUPLICATE_ERROR", <<>>)
       ELSE /\ Len(persons) < MaxPersons
            /\ \E writeBackup \in BackupWrites, writeStore \in WriteOutcomes :
                   Saved("addPerson", -1, person, Append(persons, person), 1,
                         writeBackup, writeStore, saveOutcome(writeStore))

addPerson(person) ==
    /\ HasRoom
    /\ IF validate(person) # <<>>
       THEN Rejected("addPerson", -1, person, "VALIDATION_ERROR", validate(person))
       ELSE IF isDuplicate(persons, person, -1)
       THEN Rejected("addPerson", -1, person, "DUPLICATE_ERROR", <<>>)
       ELSE /\ Len(persons) < MaxPersons
            /\ \E writeBackup \in BackupWrites, writeStore \in WriteOutcomes :
                   Saved("addPerson", -1, person, Append(persons, person), 1,
                         writeBackup, writeStore, saveOutcome(writeStore))

updatePerson(index, person) ==
    /\ HasRoom
    /\ IF IndexOutOfRange(persons, index)
       THEN Rejected("updatePerson", index, person, "VALIDATION_ERROR", <<>>)
       ELSE IF validate(person) # <<>>
       THEN Rejected("updatePerson", index, person, "VALIDATION_ERROR", validate(person))
       ELSE IF isDuplicate(persons, person, index)
       THEN Rejected("updatePerson", index, person, "DUPLICATE_ERROR", <<>>)
       ELSE \E writeBackup \in BackupWrites, writeStore \in WriteOutcomes :
                Saved("updatePerson", index, person,
                      [persons EXCEPT ![index + 1] =
                                          updatedRecord(persons[index + 1], person, now)],
                      0, writeBackup, writeStore, saveOutcome(writeStore))

deletePerson(index) ==
    /\ HasRoom
    /\ IF IndexOutOfRange(persons, index)
       THEN Rejected("deletePerson", index, NoPerson, "VALIDATION_ERROR", <<>>)
       ELSE \E writeBackup \in BackupWrites, writeStore \in WriteOutcomes :
                Saved("deletePerson", index, NoPerson, splice(persons, index), 0,
                      writeBackup, writeStore, saveOutcome(writeStore))

\* every error is rethrown as a STORAGE_ERROR
clearAllPersons ==
    /\ HasRoom
    /\ \E writeBackup \in BackupWrites, writeStore \in WriteOutcomes :
           Saved("clearAllPersons", -1, NoPerson, <<>>, 0, writeBackup, writeStore,
                 IF writeStore = "ok" THEN "ok" ELSE "STORAGE_ERROR")

\* restoreBackup(backupId): "ok" or the type of the AppError it throws
restoreBackupOutcome(backups, backupId) ==
    IF \A i \in 1..Len(backups) : backups[i].id # backupId THEN "VALIDATION_ERROR"
    ELSE LET backup == backups[CHOOSE i \in 1..Len(backups) :
                                   /\ backups[i].id = backupId
                                   /\ \A j \in 1..(i - 1) : backups[j].id # backupId]
         IN  IF calculateChecksum(backup.data) # backup.checksum THEN "STORAGE_ERROR"
             ELSE "ok"

\* restoreBackup(backupId): the data it returns
restoreBackup(backups, backupId) ==
    backups[CHOOSE i \in 1..Len(backups) :
                /\ backups[i].id = backupId
                /\ \A j \in 1..(i - 1) : backups[j].id # backupId].data

\* an id no snapshot carries
UnknownBackupId == generateBackupId[nextBackupId]

\* the position, from 0, of the snapshot restoreBackup(backupId) finds; -1
\* if it finds none
findBackup(backups, backupId) ==
    IF \A i \in 1..Len(backups) : backups[i].id # backupId THEN -1
    ELSE (CHOOSE i \in 1..Len(backups) :
              /\ backups[i].id = backupId
              /\ \A j \in 1..(i - 1) : backups[j].id # backupId) - 1

\* restoreFromBackup(backupId); the call reports the position of the
\* snapshot found
restoreFromBackup(backupId) ==
    /\ HasRoom
    /\ IF restoreBackupOutcome(backupStore, backupId) # "ok"
       THEN Rejected("restoreFromBackup", findBackup(backupStore, backupId), NoPerson,
                     restoreBackupOutcome(backupStore, backupId), <<>>)
       ELSE LET backupData == restoreBackup(backupStore, backupId)
            IN  /\ nextId + IdsKept(backupData) <= MaxIds
                /\ \E writeBackup \in BackupWrites, writeStore \in WriteOutcomes :
                       Saved("restoreFromBackup", findBackup(backupStore, backupId),
                             NoPerson,
                             mapFromJSON(backupData, nextId, now), IdsKept(backupData),
                             writeBackup, writeStore, saveOutcome(writeStore))

\* importData(file).persons for a file that passes validateImportData
importData(data) == mapFromJSON(data, nextId, now)

\* replaceAllData(list); every error is rethrown as a STORAGE_ERROR
replaceAllDataOf(list) ==
    \E writeFirst \in BackupWrites, writeBackup \in BackupWrites,
       writeStore \in WriteOutcomes :
        /\ failures + Failed(<<writeFirst, writeBackup, writeStore>>) <= MaxFailures
        /\ IF writeFirst # "ok"
           THEN /\ writeBackup = "ok" /\ writeStore = "ok"
                /\ last' = [Call("replaceAllData", -1, NoPerson, "STORAGE_ERROR", <<>>,
                                 "none") EXCEPT !.data = list]
                /\ failures' = failures + 1
                /\ UNCHANGED <<persons, store, backupStore, nextBackupId>>
           ELSE LET first == createBackup(backupStore, mapToJSON(persons), nextBackupId, now)
                    after == savedBackups(first, list, nextBackupId + 1, writeBackup)
                IN  /\ persons' = list
                    /\ backupStore' = after
                    /\ store' = savedStore(list, writeStore)
                    /\ nextBackupId' = IF after # first THEN nextBackupId + 2
                                       ELSE nextBackupId + 1
                    /\ failures' = failures + Failed(<<writeBackup, writeStore>>)
                    /\ last' = [Call("replaceAllData", -1, NoPerson,
                                     IF writeStore = "ok" THEN "ok" ELSE "STORAGE_ERROR",
                                     <<>>, writeStore) EXCEPT !.data = list]
        /\ UNCHANGED <<now, app, jobs>>

\* replaceAllData(importData(file).persons) for a file that importData accepts
\* and the user confirms
replaceAllData(data) ==
    /\ last = Idle
    /\ nextBackupId + 1 < MaxBackupIds
    /\ nextId + IdsKept(data) <= MaxIds
    /\ validateImportData(data) = <<>>
    /\ nextId' = nextId + IdsKept(data)
    /\ replaceAllDataOf(importData(data))

\* new DataManager(): the page is loaded again
construct ==
    /\ last = Idle
    /\ nextId + IdsKept(store.data) <= MaxIds
    /\ persons' = loadPersons(store, nextId, now)
    /\ nextId' = nextId + IdsKept(store.data)
    /\ last' = Call("loadPersons", -1, NoPerson, loadPersonsOutcome(store), <<>>, "none")
    /\ UNCHANGED <<store, backupStore, now, nextBackupId, failures,
                   app, jobs>>

\* the Person objects the form can build at this moment
FormPersons ==
    {Person(f[1], f[2], f[3], f[4], generateId[nextId], now) : f \in FormInputs}

\* the ids restoreFromBackup may be asked for
BackupIds == {backupStore[i].id : i \in 1..Len(backupStore)} \cup {UnknownBackupId}

Next ==
    \/ Tick
    \/ Settle
    \/ \E person \in FormPersons : addPerson(person)
    \/ \E index \in -1..Len(persons), person \in FormPersons : updatePerson(index, person)
    \/ \E index \in -1..Len(persons) : deletePerson(index)
    \/ clearAllPersons
    \/ \E data \in ImportFiles : replaceAllData(data)
    \/ \E id \in BackupIds : restoreFromBackup(id)
    \/ construct

Spec == Init /\ [][Next]_vars

(***************************************************************************)
(* The backup history alone: dataBackup called directly, as replaceAllData *)
(* and savePersons call it.                                                *)
(***************************************************************************)
\* the data arrays createBackup and autoBackup are handed
SnapshotData == {<<>>, <<RecordAl>>, <<RecordBHyphen>>}

\* dataBackup.createBackup(data): a refused setItem is rethrown as a
\* STORAGE_ERROR and leaves the history as it was
createBackupCall(data) ==
    /\ last = Idle
    /\ \E write \in BackupWrites :
        /\ failures + Failed(<<write>>) <= MaxFailures
        /\ backupStore' = IF write = "ok"
                          THEN createBackup(backupStore, data, nextBackupId, now)
                          ELSE backupStore
        /\ nextBackupId' = IF write = "ok" THEN nextBackupId + 1 ELSE nextBackupId
        /\ failures' = failures + Failed(<<write>>)
        /\ last' = [Call("createBackup", -1, NoPerson,
                         IF write = "ok" THEN "ok" ELSE "STORAGE_ERROR", <<>>, write)
                    EXCEPT !.data = data]
        /\ UNCHANGED <<persons, store, now, nextId,
                       app, jobs>>

\* dataBackup.autoBackup(data): it throws nothing
autoBackupCall(data) ==
    /\ last = Idle
    /\ \E write \in BackupWrites :
        /\ IF autoBackupNeeded(backupStore, data) THEN TRUE ELSE write = "ok"
        /\ failures + Failed(<<write>>) <= MaxFailures
        /\ backupStore' = autoBackup(backupStore, data, nextBackupId, now, write)
        /\ nextBackupId' = IF backupStore' # backupStore THEN nextBackupId + 1
                           ELSE nextBackupId
        /\ failures' = failures + Failed(<<write>>)
        /\ last' = [Call("autoBackup", -1, NoPerson, "ok", <<>>,
                         IF autoBackupNeeded(backupStore, data) THEN write ELSE "none")
                    EXCEPT !.data = data]
        /\ UNCHANGED <<persons, store, now, nextId,
                       app, jobs>>

NextBackup ==
    \/ Tick
    \/ Settle
    \/ \E data \in SnapshotData : nextBackupId < MaxSnapshots /\ createBackupCall(data)
    \/ \E data \in SnapshotData : nextBackupId < MaxSnapshots /\ autoBackupCall(data)

SpecBackup == Init /\ [][NextBackup]_vars

(***************************************************************************)
(* Restoring from the history: the item under backup_listaPessoas can be   *)
(* edited from outside the program between createBackup and restoreBackup. *)
(***************************************************************************)
\* the data of the snapshot at position i of the stored history is replaced,
\* its checksum left as it is
editSnapshot(i, data) ==
    /\ last = Idle
    /\ data # backupStore[i].data
    /\ backupStore' = [backupStore EXCEPT ![i].data = data]
    /\ last' = [Call("editSnapshot", i - 1, NoPerson, "ok", <<>>, "none")
                EXCEPT !.data = data]
    /\ UNCHANGED <<persons, store, now, nextId, nextBackupId, failures,
                   app, jobs>>

\* dataBackup.restoreBackup(backupId), called at once after an edit or at any
\* other moment: the call reports the snapshot's position, the data returned,
\* and the history as the program last wrote it
restoreBackupCall(backupId) ==
    /\ last.op \in {"none", "editSnapshot"}
    /\ last' = [Call("restoreBackup", findBackup(backupStore, backupId), NoPerson,
                     restoreBackupOutcome(backupStore, backupId), <<>>, "none")
                EXCEPT !.data = IF restoreBackupOutcome(backupStore, backupId) = "ok"
                                THEN restoreBackup(backupStore, backupId)
                                ELSE <<>>,
                       !.backupStore = IF last.op = "editSnapshot" THEN last.backupStore
                                       ELSE backupStore]
    /\ UNCHANGED <<persons, store, backupStore, now, nextId, nextBackupId, failures,
                   app, jobs>>

NextRestore ==
    \/ Tick
    \/ Settle
    \/ \E data \in SnapshotData : nextBackupId < MaxBackupIds /\ createBackupCall(data)
    \/ \E i \in 1..Len(backupStore), data \in SnapshotData : editSnapshot(i, data)
    \/ \E id \in BackupIds : restoreBackupCall(id)

SpecRestore == Init /\ [][NextRestore]_vars

(***************************************************************************)
(* Export and import: DataBackup.importFromFile called directly, and the   *)
(* steps of App.importData: DataManager.importData, the confirmation       *)
(* modal, replaceAllData.                                                  *)
(***************************************************************************)
\* the data arrays of the files picked
FileArrays == UNION {[1..n -> FileEntries] : n \in 0..MaxImport}

\* the files picked: every array without a checksum, three arrays with
\* their own, one array with a checksum that is not its own and with an empty
\* one, a file that is not JSON by type or name, one whose text does not
\* parse, and one without a data array
Files ==
    {File(TRUE, "object", "array", data, Undefined) : data \in FileArrays}
    \cup {File(TRUE, "object", "array", data, calculateChecksum(data)) :
              data \in {<<>>, <<EntryAna>>, <<EntryBob, EntryAna>>}}
    \cup {File(TRUE, "object", "array", <<EntryAna>>, WrongChecksum),
          File(TRUE, "object", "array", <<EntryAna>>, ""),
          File(FALSE, "object", "array", <<EntryAna>>, Undefined),
          File(TRUE, "garbage", "none", <<>>, Undefined),
          File(TRUE, "object", "none", <<>>, Undefined)}

\* dataBackup.importFromFile(file)
importFromFileCall(file) ==
    /\ last = Idle
    /\ last' = [Call("importFromFile", -1, NoPerson, importFromFileOutcome(file),
                     <<>>, "none")
                EXCEPT !.file = file,
                       !.data = IF importFromFileOutcome(file) = "ok"
                                THEN importFromFile(file) ELSE <<>>]
    /\ UNCHANGED <<persons, store, backupStore, now, nextId, nextBackupId, failures,
                   app, jobs>>

\* dataManager.exportData(): the file it has the browser download
exportDataCall ==
    /\ last = Idle
    /\ last' = [Call("exportData", -1, NoPerson, "ok", <<>>, "none")
                EXCEPT !.file = exportToFile(mapToJSON(persons))]
    /\ UNCHANGED <<persons, store, backupStore, now, nextId, nextBackupId, failures,
                   app, jobs>>

\* dataManager.importData(file), of a picked file or of the file exportData
\* has just written: the candidate records, or the errors of the validation
importDataCall(file) ==
    /\ IF last = Idle THEN file \in Files
       ELSE last.op = "exportData" /\ file = last.file
    /\ LET outcome == importDataOutcome(file)
           kept == IF outcome = "ok" THEN IdsKept(file.data) ELSE 0
       IN  /\ nextId + kept <= MaxIds
           /\ nextId' = nextId + kept
           /\ last' = [Call("importData", -1, NoPerson, outcome,
                            IF importFromFileOutcome(file) = "ok"
                            THEN validateImportData(file.data) ELSE <<>>,
                            "none")
                       EXCEPT !.file = file,
                              !.data = IF outcome = "ok" THEN importData(file.data)
                                       ELSE <<>>]
    /\ UNCHANGED <<persons, store, backupStore, now, nextBackupId, failures,
                   app, jobs>>

\* confirmationModal.show(...) resolves with the user's answer
confirmImport(answer) ==
    /\ last.op = "importData"
    /\ last.outcome = "ok"
    /\ answer => nextBackupId + 1 < MaxBackupIds
    /\ last' = [last EXCEPT !.op = "confirmationModal",
                            !.outcome = IF answer THEN "confirmed" ELSE "cancelled"]
    /\ UNCHANGED <<persons, store, backupStore, now, nextId, nextBackupId, failures,
                   app, jobs>>

\* App.importData replacing the collection whatever the modal resolved with
replaceUnconfirmed ==
    /\ last.op = "confirmationModal"
    /\ nextBackupId + 1 < MaxBackupIds
    /\ replaceAllDataOf(last.data)
    /\ UNCHANGED nextId

\* if (!confirmed) return; await this.dataManager.replaceAllData(result.persons)
replaceConfirmed ==
    /\ last.op = "confirmationModal"
    /\ last.outcome = "confirmed"
    /\ replaceAllDataOf(last.data)
    /\ UNCHANGED nextId

\* App.importData returns, or the caller has taken the result of a call
importSettle ==
    /\ ~(last.op = "importData" /\ last.outcome = "ok")
    /\ ~(last.op = "confirmationModal" /\ last.outcome = "confirmed")
    /\ Settle

NextImport ==
    \/ Tick
    \/ importSettle
    \/ \E file \in Files : importFromFileCall(file)
    \/ exportDataCall
    \/ \E file \in Files \cup {last.file} : importDataCall(file)
    \/ \E answer \in BOOLEAN : confirmImport(answer)
    \/ replaceConfirmed

SpecImport == Init /\ [][NextImport]_vars

(***************************************************************************)
(* Construction over a damaged item: something other than savePersons has  *)
(* written under listaPessoas.                                             *)
(***************************************************************************)
\* the item under listaPessoas is overwritten from outside: with text that
\* JSON.parse rejects ("syntax"), with JSON that is no array ("shape"), or
\* with the stored array followed by an entry that is null ("entry")
corruptStore(fault) ==
    /\ last = Idle
    /\ store.present
    /\ store.fault = "none"
    /\ store' = [store EXCEPT !.fault = fault]
    /\ UNCHANGED <<persons, backupStore, now, nextId, nextBackupId, failures, last,
                   app, jobs>>

\* records are added while the item is sound; a page load constructs a new
\* DataManager over whatever the item holds
NextLoad ==
    \/ Tick
    \/ Settle
    \/ \E person \in FormPersons : store.fault = "none" /\ addPerson(person)
    \/ \E fault \in ItemFaults : corruptStore(fault)
    \/ construct

SpecLoad == Init /\ [][NextLoad]_vars

(***************************************************************************)
(* Overlapping calls.  An async method runs on the single control thread   *)
(* until it reaches an await; jobs holds the calls started, in the order   *)
(* they were started, each with the point it has reached: "checked" (its   *)
(* checks have passed, the mutation is next), "await" (at await            *)
(* this.savePersons()), "settled" (its promise is resolved or rejected).   *)
(***************************************************************************)
\* the AppError the checks of a method throw on the collection list, "ok"
\* when they pass
refusal(list, op, index, person) ==
    IF op # "addPerson" /\ IndexOutOfRange(list, index) THEN "VALIDATION_ERROR"
    ELSE IF op = "deletePerson" THEN "ok"
    ELSE IF validate(person) # <<>> THEN "VALIDATION_ERROR"
    ELSE IF isDuplicate(list, person, IF op = "updatePerson" THEN index ELSE -1)
    THEN "DUPLICATE_ERROR"
    ELSE "ok"

\* the statements between the checks and await this.savePersons(), at time t:
\* push, this.persons[index] = updatedPerson, or splice.  Past the end of the
\* list, reading originalPerson.id throws and splice removes nothing
mutation(list, op, index, person, t) ==
    IF op = "addPerson" THEN Append(list, person)
    ELSE IF IndexOutOfRange(list, index) THEN list
    ELSE IF op = "updatePerson"
    THEN [list EXCEPT ![index + 1] = updatedRecord(list[index + 1], person, t)]
    ELSE splice(list, index)

\* a method that also gives up the control thread between its checks and its
\* mutation
SuspendedAfterChecks(job) == job.pc \in {"await", "checked"}

\* a call that has left the control thread: the methods give it up at
\* await this.savePersons() and nowhere before
Suspended(job) == job.pc = "await"

\* no call other than the j-th holds the control thread
ThreadFree(j) ==
    \A k \in 1..Len(jobs) : k = j \/ jobs[k].pc = "settled" \/ Suspended(jobs[k])

\* a method is called: its checks run
call(op, index, person) ==
    /\ Len(jobs) < MaxJobs
    /\ ThreadFree(0)
    /\ op # "deletePerson" => nextId < MaxIds
    /\ jobs' = Append(jobs, [op |-> op, index |-> index, person |-> person,
                             pc |-> IF refusal(persons, op, index, person) = "ok"
                                    THEN "checked" ELSE "settled",
                             outcome |-> refusal(persons, op, index, person),
                             at |-> now])
    /\ nextId' = IF op = "deletePerson" THEN nextId ELSE nextId + 1
    /\ UNCHANGED <<persons, store, backupStore, now, nextBackupId, failures, last, app>>

\* the j-th call goes on from its checks to the mutation and the body of
\* savePersons, all writes succeeding
mutate(j) ==
    /\ jobs[j].pc = "checked"
    /\ ThreadFree(j)
    /\ nextBackupId < MaxSnapshots
    /\ LET list == mutation(persons, jobs[j].op, jobs[j].index, jobs[j].person, now)
       IN  /\ persons' = list
           /\ backupStore' = savedBackups(backupStore, list, nextBackupId, "ok")
           /\ store' = savedStore(list, "ok")
    /\ nextBackupId' = IF backupStore' # backupStore THEN nextBackupId + 1 ELSE nextBackupId
    /\ jobs' = [jobs EXCEPT ![j].pc = "await", ![j].at = now]
    /\ UNCHANGED <<now, nextId, failures, last, app>>

\* the j-th call goes on from its await and returns
resume(j) ==
    /\ jobs[j].pc = "await"
    /\ ThreadFree(0)
    /\ jobs' = [jobs EXCEPT ![j].pc = "settled"]
    /\ UNCHANGED <<persons, store, backupStore, now, nextId, nextBackupId, failures,
                   last, app>>

\* the collection after the first k calls of jobs, had each been awaited
\* before the next was started
Serial[k \in 0..Len(jobs)] ==
    IF k = 0 THEN <<>>
    ELSE IF refusal(Serial[k - 1], jobs[k].op, jobs[k].index, jobs[k].person) = "ok"
    THEN mutation(Serial[k - 1], jobs[k].op, jobs[k].index, jobs[k].person, jobs[k].at)
    ELSE Serial[k - 1]

NextAsync ==
    \/ Tick
    \/ \E person \in FormPersons : call("addPerson", -1, person)
    \/ \E index \in -1..Len(persons), person \in FormPersons :
           call("updatePerson", index, person)
    \/ \E index \in -1..Len(persons) : call("deletePerson", index, NoPerson)
    \/ \E j \in 1..Len(jobs) : mutate(j)
    \/ \E j \in 1..Len(jobs) : resume(j)

SpecAsync == Init /\ [][NextAsync]_vars

(***************************************************************************)
(* Person alone: the validators and the serialization, called directly.    *)
(***************************************************************************)
\* the arguments the constructor is given
PersonFields ==
    {NameAna, NameShort}
        \X {DateValid, DateInvalid, DateToday, DateTomorrow, Date120YearsAgo,
            DateAged120, DateAged121, DateLeapDay, ""}
        \X {PhoneA, PhoneB, PhoneShort, PhoneArea01, PhoneArea10, PhoneArea99,
            PhoneTenDigits, PhoneTwelveDigits, "", Undefined}
        \X {EmailAna, EmailBad}

\* person.validate(): the errors, and isValid as the outcome
validateCall(person) ==
    /\ last = Idle
    /\ last' = Call("validate", -1, person,
                    IF isValid(person) THEN "true" ELSE "false", validate(person), "none")
    /\ UNCHANGED <<persons, store, backupStore, now, nextId, nextBackupId, failures,
                   app, jobs>>

\* Person.validateBirthDate(date) and Person.validatePhone(phone) on one
\* field of the arguments
validateFieldCall(field, value) ==
    /\ last = Idle
    /\ last' = Call(field, -1,
                    IF field = "validatePhone" THEN [NoPerson EXCEPT !.telefone = value]
                    ELSE [NoPerson EXCEPT !.dataNascimento = value],
                    IF (IF field = "validatePhone" THEN validatePhone[value]
                        ELSE validateBirthDate[value])
                    THEN "true" ELSE "false",
                    <<>>, "none")
    /\ UNCHANGED <<persons, store, backupStore, now, nextId, nextBackupId, failures,
                   app, jobs>>

\* Person.fromJSON(r.toJSON()) for a Person r constructed at created and
\* stamped again at updated; the dates of r.toJSON() are read as JSON text
\* carries them
roundTripCall(f, created, updated) ==
    /\ last = Idle
    /\ created <= updated
    /\ updated <= now
    /\ nextId < MaxIds
    /\ LET r == [Person(f[1], f[2], f[3], f[4], generateId[nextId], created)
                 EXCEPT !.updatedAt = updated]
       IN  last' = [Call("fromJSON", -1, r, "ok", <<>>, "none")
                    EXCEPT !.data = <<fromJSON(toJSON(r), generateId[nextId + 1], now)>>]
    /\ UNCHANGED <<persons, store, backupStore, now, nextId, nextBackupId, failures,
                   app, jobs>>

NextPerson ==
    \/ Tick
    \/ Settle
    \/ \E f \in PersonFields :
           validateCall(Person(f[1], f[2], f[3], f[4], generateId[nextId], now))
    \/ \E f \in PersonFields : validateFieldCall("validateBirthDate", f[2])
    \/ \E f \in PersonFields : validateFieldCall("validatePhone", f[3])
    \/ \E f \in PersonFields, created \in 0..MaxTime, updated \in 0..MaxTime :
           roundTripCall(f, created, updated)

SpecPerson == Init /\ [][NextPerson]_vars

(***************************************************************************)
(* The App: the form, the import, removal behind the confirmation modal,   *)
(* undo, and search.  jobs holds the removePerson that waits for its       *)
(* modal: "modal" while the modal is open, "resolved" once confirm() or    *)
(* cancel() has resolved the promise and the handler has yet to go on.     *)
(***************************************************************************)
\* the queries typed into the search field
Queries == {QueryAna, QueryLima, QuerySpaced, QueryArea, QueryBlank, "", Undefined}

\* String.prototype.includes
includes(s, part) ==
    \E i \in 0..(Len(s) - Len(part)) : SubSeq(s, i + 1, i + Len(part)) = part

\* searchPersons with the query as it was typed
searchPersonsUntrimmed(list, query) ==
    IF Falsy(query) \/ ~IsString(query) THEN list
    ELSE LET searchTerm == toLowerCase(Chars[query])
         IN  SelectSeq(list, LAMBDA person :
                 \/ includes(toLowerCase(Chars[person.nome]), searchTerm)
                 \/ includes(toLowerCase(Chars[person.email]), searchTerm)
                 \/ includes(Chars[person.telefone], searchTerm))

\* dataManager.searchPersons(query) over the collection list
searchPersons(list, query) ==
    IF Falsy(query) \/ ~IsString(query) THEN list
    ELSE LET searchTerm == trim(toLowerCase(Chars[query]))
         IN  SelectSeq(list, LAMBDA person :
                 \/ includes(toLowerCase(Chars[person.nome]), searchTerm)
                 \/ includes(toLowerCase(Chars[person.email]), searchTerm)
                 \/ includes(Chars[person.telefone], searchTerm))

\* a search: the query is reported as the nome of the call's person, the
\* records returned as its data
searchCall(query) ==
    /\ last = Idle
    /\ jobs = <<>>
    /\ last' = [Call("searchPersons", -1, [NoPerson EXCEPT !.nome = query], "ok", <<>>,
                     "none")
                EXCEPT !.data = searchPersons(persons, query)]
    /\ UNCHANGED <<persons, store, backupStore, now, nextId, nextBackupId, failures,
                   app, jobs>>

\* the handlers of kind op that wait for a promise or a timer
Pending(op) == {j \in 1..Len(jobs) : jobs[j].op = op}

\* app.removePerson(index) up to await confirmationModal.confirmDelete(person)
removePerson(index) ==
    /\ HasRoom
    /\ Pending("removePerson") = {}
    /\ IF IndexOutOfRange(persons, index)
       THEN Rejected("removePerson", index, NoPerson, "VALIDATION_ERROR", <<>>)
       ELSE /\ jobs' = Append(jobs, [op |-> "removePerson", index |-> index,
                                        person |-> persons[index + 1],
                                        pc |-> "modal", outcome |-> "pending",
                                        at |-> now])
            /\ UNCHANGED <<persons, store, backupStore, now, nextId, nextBackupId,
                           failures, last, app>>

\* the ways the modal is left: the confirm button calls confirm(); the cancel
\* button, Escape and a click on the overlay call cancel()
ModalExits == {"confirm", "cancel", "Escape", "overlay"}

\* what the promise of the modal resolves with: confirm() calls
\* currentResolve(true), cancel() currentResolve(false)
confirmed(exit) == exit = "confirm"

\* the modal is left: the promise resolves, the handler is still to go on
resolveModal(exit) ==
    /\ \E j \in Pending("removePerson") :
           /\ jobs[j].pc = "modal"
           /\ jobs' = [jobs EXCEPT ![j].pc = "resolved", ![j].outcome = exit]
    /\ UNCHANGED <<persons, store, backupStore, now, nextId, nextBackupId, failures,
                   last, app>>

\* removePerson that goes on to delete whatever the modal resolved with
removeUnasked ==
    /\ jobs # <<>>
    /\ jobs[1].op = "removePerson"
    /\ jobs[1].pc = "resolved"
    /\ jobs' = <<>>
    /\ app' = [app EXCEPT !.lastDeletedPerson =
                              [person |-> jobs[1].person, index |-> jobs[1].index]]
    /\ \E writeBackup \in BackupWrites, writeStore \in WriteOutcomes :
           Save("removePerson", jobs[1].index, jobs[1].person,
                mutation(persons, "deletePerson", jobs[1].index, NoPerson, now), 0,
                writeBackup, writeStore, saveOutcome(writeStore))
    /\ UNCHANGED now

\* app.removePerson from the await on: if (!confirmed) return; then the undo
\* slot is filled and dataManager.deletePerson(index) called
removeConfirmed ==
    /\ last = Idle
    /\ \E j \in Pending("removePerson") :
        LET job == jobs[j]
        IN  /\ job.pc = "resolved"
            /\ jobs' = splice(jobs, j - 1)
            /\ IF ~confirmed(job.outcome)
               THEN /\ last' = Call("removePerson", job.index, job.person, "cancelled",
                                    <<>>, "none")
                    /\ UNCHANGED <<persons, store, backupStore, nextId, nextBackupId,
                                   failures, app>>
               ELSE IF IndexOutOfRange(persons, job.index)
               THEN /\ app' = [app EXCEPT !.lastDeletedPerson =
                                              [person |-> job.person, index |-> job.index]]
                    /\ last' = Call("removePerson", job.index, job.person,
                                    "VALIDATION_ERROR", <<>>, "none")
                    /\ UNCHANGED <<persons, store, backupStore, nextId, nextBackupId,
                                   failures>>
               ELSE \E writeBackup \in BackupWrites, writeStore \in WriteOutcomes :
                        /\ Save("removePerson", job.index, job.person,
                                splice(persons, job.index), 0, writeBackup, writeStore,
                                saveOutcome(writeStore))
                        /\ app' = [app EXCEPT
                                      !.lastDeletedPerson =
                                          [person |-> job.person, index |-> job.index],
                                      !.currentEditIndex =
                                          IF writeStore = "ok" /\ @ = job.index
                                          THEN NoEdit ELSE @]
    /\ UNCHANGED now

\* app.undoDelete(): dataManager.addPerson of the Person in the undo slot; the
\* slot is emptied when addPerson returns.  Called right after a removePerson
\* that deleted, the report carries the index deleted and, as data, the
\* collection before the deletion
undoDelete ==
    /\ IF last = Idle THEN TRUE
       ELSE last.op = "removePerson" /\ last.outcome \notin {"cancelled", "VALIDATION_ERROR"}
    /\ jobs = <<>>
    /\ nextBackupId < MaxBackupIds
    /\ LET person == app.lastDeletedPerson.person
           index == IF last = Idle THEN -1 ELSE last.index
           before == IF last = Idle THEN <<>> ELSE last.persons
       IN  IF app.lastDeletedPerson = NoDeletion
           THEN /\ last' = Call("undoDelete", -1, NoPerson, "warning", <<>>, "none")
                /\ UNCHANGED <<persons, store, backupStore, nextId, nextBackupId,
                               failures, app>>
           ELSE IF refusal(persons, "addPerson", -1, person) # "ok"
           THEN /\ last' = [Call("undoDelete", index, person,
                                 refusal(persons, "addPerson", -1, person),
                                 validate(person), "none")
                            EXCEPT !.data = before]
                /\ UNCHANGED <<persons, store, backupStore, nextId, nextBackupId,
                               failures, app>>
           ELSE \E writeBackup \in BackupWrites, writeStore \in WriteOutcomes :
                    /\ failures + Failed(<<writeBackup, writeStore>>) <= MaxFailures
                    /\ persons' = Append(persons, person)
                    /\ backupStore' = savedBackups(backupStore, persons', nextBackupId,
                                                   writeBackup)
                    /\ store' = savedStore(persons', writeStore)
                    /\ nextBackupId' = IF backupStore' # backupStore
                                       THEN nextBackupId + 1 ELSE nextBackupId
                    /\ failures' = failures + Failed(<<writeBackup, writeStore>>)
                    /\ last' = [Call("undoDelete", index, person,
                                     saveOutcome(writeStore), <<>>, writeStore)
                                EXCEPT !.data = before]
                    /\ app' = IF writeStore = "ok"
                              THEN [app EXCEPT !.lastDeletedPerson = NoDeletion]
                              ELSE app
                    /\ UNCHANGED nextId
    /\ UNCHANGED <<now, jobs>>

NextApp ==
    \/ jobs = <<>> /\ Tick
    \/ Settle
    \/ \E person \in FormPersons : jobs = <<>> /\ addPerson(person)
    \/ \E data \in ImportFiles : jobs = <<>> /\ replaceAllData(data)
    \/ \E query \in Queries : searchCall(query)
    \/ \E index \in -1..Len(persons) : removePerson(index)
    \/ \E exit \in ModalExits : resolveModal(exit)
    \/ removeConfirmed
    \/ undoDelete

SpecApp == Init /\ [][NextApp]_vars

(***************************************************************************)
(* Editing: editPerson loads a record into the form, handleFormSubmit      *)
(* waits 500 ms and then updates the record at currentEditIndex, and       *)
(* records can be removed in between.  app.editing is a history variable:  *)
(* the record editPerson loaded last.  The clock of the model does not     *)
(* measure the 500 ms: the handler goes on in a later step.                *)
(***************************************************************************)
\* two more records as exportData wrote them
EntryBea ==
    [id |-> IdBea, nome |-> NameBob, dataNascimento |-> DateValid,
     telefone |-> PhoneTenDigits, email |-> EmailBob,
     createdAt |-> toISOString[0], updatedAt |-> toISOString[0]]

EntryCid ==
    [id |-> IdCid, nome |-> NameAl, dataNascimento |-> DateValid,
     telefone |-> PhoneArea99, email |-> EmailCid,
     createdAt |-> toISOString[0], updatedAt |-> toISOString[0]]

\* the files imported before the editing begins
EditFiles == {<<EntryAna, EntryBea>>, <<EntryAna, EntryBea, EntryCid>>}

\* what the form holds at the submission: new values in every field, or a
\* new name beside the telefone and email of the first record
EditInputs == {<<NameAna, DateValid, PhoneNew, EmailNew>>,
               <<NameAl, DateValid, PhoneA, EmailAna>>}

\* checkDuplicateEmail(email)
checkDuplicateEmail(list, email, currentEditIndex) ==
    \E i \in 1..Len(list) :
        /\ ~(currentEditIndex # NoEdit /\ i - 1 = currentEditIndex)
        /\ toLowerCase(Chars[list[i].email]) = toLowerCase(Chars[email])

\* checkDuplicatePhone(phone)
checkDuplicatePhone(list, phone, currentEditIndex) ==
    \E i \in 1..Len(list) :
        /\ ~(currentEditIndex # NoEdit /\ i - 1 = currentEditIndex)
        /\ SelectSeq(Chars[list[i].telefone], IsDigit) = SelectSeq(Chars[phone], IsDigit)

\* validateAllFields() on a form whose fields have no space around them
validateAllFields(list, f, currentEditIndex) ==
    /\ \A k \in 1..4 : trim(Chars[f[k]]) = Chars[f[k]]
    /\ validateName[f[1]]
    /\ validateBirthDate[f[2]]
    /\ validatePhone[f[3]] /\ ~checkDuplicatePhone(list, f[3], currentEditIndex)
    /\ validateEmail[f[4]] /\ ~checkDuplicateEmail(list, f[4], currentEditIndex)

\* app.editPerson(index)
editPerson(index) ==
    /\ last = Idle
    /\ Pending("removePerson") = {}
    /\ IF IndexOutOfRange(persons, index)
       THEN Rejected("editPerson", index, NoPerson, "VALIDATION_ERROR", <<>>)
       ELSE /\ app' = [app EXCEPT !.currentEditIndex = index,
                                  !.editing = persons[index + 1]]
            /\ last' = Call("editPerson", index, persons[index + 1], "ok", <<>>, "none")
            /\ UNCHANGED <<persons, store, backupStore, now, nextId, nextBackupId,
                           failures, jobs>>

\* handleFormSubmit up to await new Promise(resolve => setTimeout(resolve, 500))
handleFormSubmit(f) ==
    /\ last = Idle
    /\ nextId < MaxIds
    /\ Pending("removePerson") = {}
    /\ Pending("handleFormSubmit") = {}
    /\ IF ~validateAllFields(persons, f, app.currentEditIndex)
       THEN Rejected("handleFormSubmit", app.currentEditIndex, NoPerson,
                     "VALIDATION_ERROR", <<>>)
       ELSE /\ jobs' = Append(jobs, [op |-> "handleFormSubmit", index |-> -1,
                                     person |-> Person(f[1], f[2], f[3], f[4],
                                                       generateId[nextId], now),
                                     pc |-> "delay", outcome |-> "pending",
                                     at |-> now])
            /\ nextId' = nextId + 1
            /\ UNCHANGED <<persons, store, backupStore, now, nextBackupId, failures,
                           last, app>>

\* handleFormSubmit from the delay on: dataManager.updatePerson(
\* this.currentEditIndex, person) when an edit is going on, addPerson(person)
\* otherwise; currentEditIndex is reset when the call returns
submitDelayed ==
    /\ last = Idle
    /\ nextBackupId < MaxBackupIds
    /\ \E j \in Pending("handleFormSubmit") :
        LET person == jobs[j].person
            index == app.currentEditIndex
            op == IF index # NoEdit THEN "updatePerson" ELSE "addPerson"
        IN  /\ jobs' = splice(jobs, j - 1)
            /\ IF refusal(persons, op, index, person) # "ok"
               THEN /\ last' = Call("handleFormSubmit", index, person,
                                    refusal(persons, op, index, person),
                                    validate(person), "none")
                    /\ UNCHANGED <<persons, store, backupStore, nextId, nextBackupId,
                                   failures, app>>
               ELSE \E writeBackup \in BackupWrites, writeStore \in WriteOutcomes :
                        /\ Save("handleFormSubmit", index, person,
                                mutation(persons, op, index, person, now), 0,
                                writeBackup, writeStore, saveOutcome(writeStore))
                        /\ app' = [app EXCEPT !.currentEditIndex =
                                                  IF writeStore = "ok" THEN NoEdit ELSE @]
    /\ UNCHANGED now

NextEdit ==
    \/ Settle
    \/ \E data \in EditFiles :
           persons = <<>> /\ nextBackupId = 0 /\ jobs = <<>> /\ replaceAllData(data)
    \/ \E index \in -1..Len(persons) : editPerson(index)
    \/ \E index \in 0..Len(persons) : removePerson(index)
    \/ \E exit \in ModalExits : resolveModal(exit)
    \/ removeConfirmed
    \/ \E f \in EditInputs : handleFormSubmit(f)
    \/ submitDelayed

SpecEdit == Init /\ [][NextEdit]_vars

(***************************************************************************)
(* NotificationSystem.  app.notifications is this.notifications, newest    *)
(* first; app.shown counts the ids handed out (generateId is taken to give *)
(* a new id every time).  A setTimeout is a job with pc "timer" that fires *)
(* when the clock has reached its time at; the clock does not pass the     *)
(* time of a timer that has not fired.  Here the clock advances by five    *)
(* seconds at a time.                                                      *)
(***************************************************************************)
maxNotifications == 5

defaultDuration == 5000

\* the options a caller passes: none, or a duration of ten seconds
NoOptions == [given |-> FALSE, duration |-> 0]

DurationOptions == {NoOptions, [given |-> TRUE, duration |-> 10000]}

\* the steps of the clock
Elapses == {5000}

\* a timer set at this moment to fire after ms
Timer(op, id, ms) ==
    [op |-> op, index |-> id, person |-> NoPerson, pc |-> "timer",
     outcome |-> "pending", at |-> now + ms]

\* the timers whose time has come
Due == {j \in 1..Len(jobs) : jobs[j].pc = "timer" /\ jobs[j].at <= now}

\* time passes; no timer is overdue, and none becomes overdue unfired
elapse(ms) ==
    /\ last = Idle
    /\ now + ms <= MaxClock
    /\ \A j \in 1..Len(jobs) : jobs[j].pc = "timer" => jobs[j].at >= now + ms
    /\ now' = now + ms
    /\ UNCHANGED <<persons, store, backupStore, nextId, nextBackupId, failures, last,
                   app, jobs>>

\* options.duration || this.defaultDuration
durationOf(options) ==
    IF options.given /\ options.duration # 0 THEN options.duration ELSE defaultDuration

\* show(message, type, options): unshift, pop beyond maxNotifications, and
\* the setTimeout of the automatic dismissal; asked keeps the options of
\* the caller of success() or error()
show(type, options, asked) ==
    /\ last = Idle
    /\ app.shown < MaxShown
    /\ LET notification == [id |-> app.shown, type |-> type,
                            duration |-> durationOf(options), asked |-> asked]
           unshifted == <<notification>> \o app.notifications
       IN  /\ app' = [app EXCEPT
                         !.shown = @ + 1,
                         !.notifications =
                             IF Len(unshifted) > maxNotifications
                             THEN SubSeq(unshifted, 1, Len(unshifted) - 1)
                             ELSE unshifted]
           /\ jobs' = IF notification.duration > 0
                      THEN Append(jobs, Timer("dismiss", notification.id,
                                              notification.duration))
                      ELSE jobs
    /\ UNCHANGED <<persons, store, backupStore, now, nextId, nextBackupId, failures,
                   last>>

\* success(message, options)
success(options) == show("success", options, options)

\* error(message, options): show with {duration: 0, ...options}
error(options) ==
    show("error", IF options.given THEN options ELSE [given |-> TRUE, duration |-> 0],
         options)

\* this.notifications after dismiss(id)
dismissed(id) == SelectSeq(app.notifications, LAMBDA n : n.id # id)

\* dismiss(id) from the close button of a notification in the list (in the
\* runs below, of the newest one)
dismiss(id) ==
    /\ last = Idle
    /\ \E k \in 1..Len(app.notifications) : app.notifications[k].id = id
    /\ app' = [app EXCEPT !.notifications = dismissed(id)]
    /\ UNCHANGED <<persons, store, backupStore, now, nextId, nextBackupId, failures,
                   last, jobs>>

\* dismissAll()
dismissAll ==
    /\ last = Idle
    /\ app.notifications # <<>>
    /\ app' = [app EXCEPT !.notifications = <<>>]
    /\ UNCHANGED <<persons, store, backupStore, now, nextId, nextBackupId, failures,
                   last, jobs>>

\* the callback of the setTimeout in show: this.dismiss(notification.id);
\* the report carries the notification it removed, if it was still there
dismissTimer ==
    /\ last = Idle
    /\ \E j \in Due :
           /\ jobs[j].op = "dismiss"
           /\ jobs' = splice(jobs, j - 1)
           /\ app' = [app EXCEPT !.notifications = dismissed(jobs[j].index)]
           /\ last' = [Call("dismiss", jobs[j].index, NoPerson, "timer", <<>>, "none")
                       EXCEPT !.data = SelectSeq(app.notifications,
                                                 LAMBDA n : n.id = jobs[j].index)]
    /\ UNCHANGED <<persons, store, backupStore, now, nextId, nextBackupId, failures>>

NextNotify ==
    \/ Settle
    \/ \E ms \in Elapses : elapse(ms)
    \/ success(NoOptions)
    \/ \E options \in DurationOptions : error(options)
    \/ app.notifications # <<>> /\ dismiss(app.notifications[1].id)
    \/ dismissAll
    \/ dismissTimer

SpecNotify == Init /\ [][NextNotify]_vars

(***************************************************************************)
(* The search field and the rendered list.  app.searchTimeout is the id of *)
(* the timer set last (0 before the first).  app.inputs and app.renders    *)
(* are history variables: the input events and the renders the timers      *)
(* made, each with its time.  The callback of a timer whose time has come  *)
(* runs before any event that arrives at that time or later.               *)
(***************************************************************************)
searchDelay == 300

\* the queries of the input events
SearchInputs == {QueryAna, QueryLima, ""}

\* the steps of the clock between input events
SearchElapses == {100, 200, 300}

\* the file imported before the search field is used
SearchFiles == {<<EntryAna, EntryBob>>}

\* the cards of renderPersonList(searchQuery): the records shown, each with
\* the index its Edit and Remove buttons carry, allPersons.findIndex(p =>
\* p.id === person.id)
renderPersonList(list, searchQuery) ==
    LET shown == IF Falsy(searchQuery) THEN list ELSE searchPersons(list, searchQuery)
        findIndex(id) == (CHOOSE i \in 1..Len(list) :
                              /\ list[i].id = id
                              /\ \A h \in 1..(i - 1) : list[h].id # id) - 1
    IN  [k \in 1..Len(shown) |->
            [person |-> shown[k], realIndex |-> findIndex(shown[k].id)]]

\* renderPersonList(searchQuery) called at once
renderCall(searchQuery) ==
    /\ last = Idle
    /\ last' = [Call("renderPersonList", -1, [NoPerson EXCEPT !.nome = searchQuery],
                     "ok", <<>>, "none")
                EXCEPT !.data = renderPersonList(persons, searchQuery)]
    /\ UNCHANGED <<persons, store, backupStore, now, nextId, nextBackupId, failures,
                   app, jobs>>

\* handleSearchInput that leaves the previous timer running
handleSearchInputUncleared(query) ==
    /\ last = Idle
    /\ Due = {}
    /\ Len(app.inputs) < MaxInputs
    /\ LET id == Len(app.inputs) + 1
       IN  /\ jobs' = Append(jobs, [Timer("search", id, searchDelay)
                                    EXCEPT !.person.nome = query])
           /\ app' = [app EXCEPT !.searchTimeout = id,
                                 !.inputs = Append(@, [at |-> now, query |-> query])]
    /\ UNCHANGED <<persons, store, backupStore, now, nextId, nextBackupId, failures,
                   last>>

\* handleSearchInput(event): clearTimeout(this.searchTimeout), then a new
\* timer of 300 ms that will render with the query of this event
handleSearchInput(query) ==
    /\ last = Idle
    /\ Due = {}
    /\ Len(app.inputs) < MaxInputs
    /\ LET id == Len(app.inputs) + 1
           cleared == IF app.searchTimeout # 0
                      THEN SelectSeq(jobs, LAMBDA t :
                               ~(t.op = "search" /\ t.index = app.searchTimeout))
                      ELSE jobs
       IN  /\ jobs' = Append(cleared, [Timer("search", id, searchDelay)
                                       EXCEPT !.person.nome = query])
           /\ app' = [app EXCEPT !.searchTimeout = id,
                                 !.inputs = Append(@, [at |-> now, query |-> query])]
    /\ UNCHANGED <<persons, store, backupStore, now, nextId, nextBackupId, failures,
                   last>>

\* the callback of the timer: this.renderPersonList(query)
searchTimer ==
    /\ last = Idle
    /\ \E j \in Due :
           /\ jobs[j].op = "search"
           /\ jobs' = splice(jobs, j - 1)
           /\ last' = [Call("renderPersonList", -1, jobs[j].person, "ok", <<>>, "none")
                       EXCEPT !.data = renderPersonList(persons, jobs[j].person.nome)]
           /\ app' = [app EXCEPT !.renders = Append(@, [at |-> now,
                                                        query |-> jobs[j].person.nome])]
    /\ UNCHANGED <<persons, store, backupStore, now, nextId, nextBackupId, failures>>

NextSearch ==
    \/ Settle
    \/ \E ms \in SearchElapses : now + ms <= MaxSearchClock /\ elapse(ms)
    \/ \E data \in SearchFiles :
           persons = <<>> /\ nextBackupId = 0 /\ now = 0 /\ jobs = <<>>
               /\ replaceAllData(data)
    \/ \E query \in SearchInputs : handleSearchInput(query)
    \/ searchTimer

SpecSearch == Init /\ [][NextSearch]_vars

\* a record of another person under the id of EntryAna
EntryTwin == [EntryBea EXCEPT !.id = ImportedId]

\* the files imported before the list is rendered
RenderFiles == ImportFiles \cup {<<EntryAna, EntryTwin>>}

\* the list rendered for the collections that the form and the import build
NextRender ==
    \/ Tick
    \/ Settle
    \/ \E person \in FormPersons : addPerson(person)
    \/ \E data \in RenderFiles : replaceAllData(data)
    \/ \E index \in 0..Len(persons) : deletePerson(index)
    \/ \E searchQuery \in Queries : renderCall(searchQuery)

SpecRender == Init /\ [][NextRender]_vars

(***************************************************************************)
(* restoreFromBackup over the histories that savePersons and               *)
(* replaceAllData write, snapshots edited from outside included.           *)
(***************************************************************************)
\* every snapshot of the history has the checksum of its data
Intact ==
    \A i \in 1..Len(backupStore) :
        calculateChecksum(backupStore[i].data) = backupStore[i].checksum

NextRestoreFrom ==
    \/ Settle
    \/ \E data \in ImportFiles : replaceAllData(data)
    \/ \E i \in 1..Len(backupStore), data \in SnapshotData :
           Intact /\ editSnapshot(i, data)
    \/ \E id \in BackupIds : restoreFromBackup(id)

SpecRestoreFrom == Init /\ [][NextRestoreFrom]_vars

(***************************************************************************)
(* The automatic snapshot: the collection changed through addPerson,       *)
(* updatePerson and deletePerson alone, each save calling autoBackup.       *)
(***************************************************************************)
\* what the callers hand over: two records that differ in the name only, the
\* names being the two calculateChecksum cannot tell apart, and a third record
SnapshotInputs == {<<NameAl, DateValid, PhoneA, EmailAna>>,
                   <<NameBHyphen, DateValid, PhoneA, EmailAna>>,
                   <<NameAna, DateValid, PhoneB, EmailBob>>}

SnapshotPersons ==
    {Person(f[1], f[2], f[3], f[4], generateId[nextId], now) : f \in SnapshotInputs}

NextSnapshot ==
    \/ Tick
    \/ Settle
    \/ \E person \in SnapshotPersons : addPerson(person)
    \/ \E index \in -1..Len(persons), person \in SnapshotPersons :
           updatePerson(index, person)
    \/ \E index \in -1..Len(persons) : deletePerson(index)

SpecSnapshot == Init /\ [][NextSnapshot]_vars

(***************************************************************************)
(* ConfirmationModal: show() returns a promise and keeps its resolve in    *)
(* this.currentResolve; confirm() and cancel() call it.  A promise is a    *)
(* job whose pc is "pending" until its resolve is called.                  *)
(***************************************************************************)
\* who asks: removePerson through confirmDelete(person), importData
\* through show(options)
ModalCallers == {"confirmDelete", "show"}

\* show(options): this.currentResolve = resolve; render(config); open()
showModal(caller) ==
    /\ last = Idle
    /\ Len(jobs) < MaxJobs
    /\ jobs' = Append(jobs, [op |-> caller, index |-> Len(jobs), person |-> NoPerson,
                             pc |-> "pending", outcome |-> "pending", at |-> now])
    /\ app' = [app EXCEPT !.currentResolve = Len(jobs) + 1, !.isOpen = TRUE]
    /\ last' = Call(caller, Len(jobs), NoPerson, "ok", <<>>, "none")
    /\ UNCHANGED <<persons, store, backupStore, now, nextId, nextBackupId, failures>>

\* if (this.currentResolve) { this.currentResolve(value); ... }: the promises
\* afterwards, the value being confirmed(exit)
resolved(exit) ==
    IF app.currentResolve = NoResolve THEN jobs
    ELSE [jobs EXCEPT ![app.currentResolve].pc = "settled",
                      ![app.currentResolve].outcome = exit]

\* the open modal is left by exit: confirm() or cancel() settles the promise
\* whose resolve is kept, forgets it, and close() sets isOpen = false
leaveModal(exit) ==
    /\ last = Idle
    /\ app.isOpen
    /\ jobs' = resolved(exit)
    /\ app' = [app EXCEPT !.currentResolve = NoResolve, !.isOpen = FALSE]
    /\ last' = Call(IF confirmed(exit) THEN "confirm" ELSE "cancel",
                    app.currentResolve - 1, NoPerson, exit, <<>>, "none")
    /\ UNCHANGED <<persons, store, backupStore, now, nextId, nextBackupId, failures>>

NextModal ==
    \/ Settle
    \/ \E caller \in ModalCallers : showModal(caller)
    \/ \E exit \in ModalExits : leaveModal(exit)

SpecModal == Init /\ [][NextModal]_vars

(***************************************************************************)
(* The claims.  A state with last # Idle is the state a call has just left *)
(* behind; last holds the call and the state it was made in.               *)
(***************************************************************************)
\* the methods that end in savePersons
Mutating == {"addPerson", "updatePerson", "deletePerson", "replaceAllData",
             "restoreFromBackup", "clearAllPersons"}

\* C1: no two distinct records of the live collection have the same email,
\* and no two have the same telefone
C1_UniqueContacts ==
    \A i, j \in 1..Len(persons) :
        i # j => /\ persons[i].email # persons[j].email
                 /\ persons[i].telefone # persons[j].telefone

\* C2: every record a call has written under listaPessoas passes validate()
C2_StoredRecordsValid ==
    last.write = "ok" => \A i \in 1..Len(store.data) : validate(store.data[i]) = <<>>

\* C3: when addPerson, updatePerson, deletePerson or replaceAllData ends in an
\* error, the live collection and the stored collection are what they were
\* before the call
C3_AtomicOnFailure ==
    (/\ last.op \in {"addPerson", "updatePerson", "deletePerson", "replaceAllData"}
     /\ last.outcome # "ok")
    => /\ persons = last.persons
       /\ store = last.store

\* C4: addPerson of a valid record whose email or telefone equals that of a
\* record already in the collection, at whatever position, ends in a
\* DUPLICATE_ERROR and leaves the collection as it was
C4_DuplicateAddRejected ==
    (/\ last.op = "addPerson"
     /\ validate(last.person) = <<>>
     /\ \E i \in 1..Len(last.persons) :
            \/ last.persons[i].email = last.person.email
            \/ last.persons[i].telefone = last.person.telefone)
    => /\ last.outcome = "DUPLICATE_ERROR"
       /\ persons = last.persons
       /\ Len(persons) = Len(last.persons)

\* a valid record was refused for colliding with the second of two records
\* and with it alone
C4_Witness ==
    /\ last.op = "addPerson"
    /\ last.outcome = "DUPLICATE_ERROR"
    /\ validate(last.person) = <<>>
    /\ Len(last.persons) = 2
    /\ last.persons[1].email # last.person.email
    /\ last.persons[1].telefone # last.person.telefone
    /\ last.persons[2].telefone = last.person.telefone
    /\ persons = last.persons

\* C5: addPerson of a record that fails validate() ends in a VALIDATION_ERROR
\* whose details carry the error list validate() returns, and the collection,
\* the stored collection and the backup history are what they were
C5_InvalidAddRejected ==
    (last.op = "addPerson" /\ validate(last.person) # <<>>)
    => /\ last.outcome = "VALIDATION_ERROR"
       /\ last.errors = validate(last.person)
       /\ persons = last.persons
       /\ store = last.store
       /\ backupStore = last.backupStore

\* a record with all four fields wrong was refused by a collection that
\* holds a record and has been stored
C5_Witness ==
    /\ last.op = "addPerson"
    /\ last.outcome = "VALIDATION_ERROR"
    /\ last.errors = <<ErrNome, ErrDataNascimento, ErrTelefone, ErrEmail>>
    /\ Len(persons) = 1
    /\ store.present
    /\ backupStore # <<>>

\* C6 as stated: after a successful updatePerson(i, p) the record at i has
\* the id and the createdAt of the record it replaces, and an updatedAt
\* strictly later than that record's updatedAt
C6_StrictlyLater ==
    (last.op = "updatePerson" /\ last.outcome = "ok")
    => /\ persons[last.index + 1].id = last.persons[last.index + 1].id
       /\ persons[last.index + 1].createdAt = last.persons[last.index + 1].createdAt
       /\ persons[last.index + 1].updatedAt > last.persons[last.index + 1].updatedAt

\* C6 amended: after a successful updatePerson(i, p) the record at i has the
\* id and the createdAt of the record it replaces, and its updatedAt is the
\* reading of the clock at the call
C6_StampedAtCall ==
    (last.op = "updatePerson" /\ last.outcome = "ok")
    => /\ persons[last.index + 1].id = last.persons[last.index + 1].id
       /\ persons[last.index + 1].createdAt = last.persons[last.index + 1].createdAt
       /\ persons[last.index + 1].updatedAt = now

\* the second of two records was updated a millisecond after it was made,
\* with a form record that has another id and another createdAt
C6_Witness ==
    /\ last.op = "updatePerson"
    /\ last.outcome = "ok"
    /\ last.index = 1
    /\ last.person.id # last.persons[2].id
    /\ last.person.createdAt # last.persons[2].createdAt
    /\ last.person.email # last.persons[2].email
    /\ persons[2].email = last.person.email
    /\ persons[2].updatedAt > last.persons[2].updatedAt

\* C7 as stated: updatePerson(i, p) fails and leaves the collection unchanged
\* when i is out of range, when p fails validate(), or when p's email or
\* telefone is that of a record at another index; it succeeds when p collides
\* with the record at i alone
C7_SucceedsUnlessRejected ==
    last.op = "updatePerson" =>
        LET i == last.index
            p == last.person
            before == last.persons
            clash == \E j \in 1..Len(before) :
                         /\ j # i + 1
                         /\ \/ before[j].email = p.email
                            \/ before[j].telefone = p.telefone
            refused == i < 0 \/ i >= Len(before) \/ validate(p) # <<>> \/ clash
        IN  /\ refused => /\ last.outcome # "ok"
                          /\ persons = before
            /\ ~refused => last.outcome = "ok"

\* C7 amended: updatePerson(i, p) fails with a VALIDATION_ERROR or a
\* DUPLICATE_ERROR and leaves the collection unchanged when i is out of range,
\* when p fails validate(), or when p's email or telefone is that of a record
\* at another index; otherwise none of these checks refuses it, it goes on to
\* the write to listaPessoas, and it succeeds exactly when that write is done,
\* the record at i then carrying p's fields and the others being untouched
C7_UpdateChecks ==
    last.op = "updatePerson" =>
        LET i == last.index
            p == last.person
            before == last.persons
            clash == \E j \in 1..Len(before) :
                         /\ j # i + 1
                         /\ \/ before[j].email = p.email
                            \/ before[j].telefone = p.telefone
            refused == i < 0 \/ i >= Len(before) \/ validate(p) # <<>> \/ clash
        IN  /\ refused => /\ last.outcome \in {"VALIDATION_ERROR", "DUPLICATE_ERROR"}
                          /\ last.write = "none"
                          /\ persons = before
            /\ ~refused => /\ last.write # "none"
                           /\ last.outcome = "ok" <=> last.write = "ok"
                           /\ last.outcome \notin {"VALIDATION_ERROR", "DUPLICATE_ERROR"}
            /\ (~refused /\ last.write = "ok")
               => /\ Len(persons) = Len(before)
                  /\ persons[i + 1].nome = p.nome
                  /\ persons[i + 1].dataNascimento = p.dataNascimento
                  /\ persons[i + 1].telefone = p.telefone
                  /\ persons[i + 1].email = p.email
                  /\ \A j \in 1..Len(before) : j # i + 1 => persons[j] = before[j]

\* the first of two records was updated with its own email and telefone
C7_Witness ==
    /\ last.op = "updatePerson"
    /\ last.outcome = "ok"
    /\ last.index = 0
    /\ Len(last.persons) = 2
    /\ last.person.email = last.persons[1].email
    /\ last.person.telefone = last.persons[1].telefone
    /\ persons[1].updatedAt = now

\* C8: deletePerson(i) with i out of range fails and changes nothing; with i
\* in range it removes the record at i and no other, keeps the others in
\* their order, and the stored collection is then the new live collection
C8_Delete ==
    last.op = "deletePerson" =>
        LET i == last.index
            before == last.persons
        IN  /\ (i < 0 \/ i >= Len(before))
               => /\ last.outcome # "ok"
                  /\ persons = before
                  /\ store = last.store
                  /\ backupStore = last.backupStore
            /\ (0 <= i /\ i < Len(before))
               => /\ Len(persons) = Len(before) - 1
                  /\ \A j \in 1..Len(persons) :
                         persons[j] = before[IF j <= i THEN j ELSE j + 1]
                  /\ store = Item(mapToJSON(persons))

\* the first of two stored records was deleted and the write to listaPessoas
\* was refused: the live collection has lost it, the stored one has not
C8_Witness ==
    /\ last.op = "deletePerson"
    /\ last.outcome # "ok"
    /\ last.index = 0
    /\ Len(last.persons) = 2
    /\ persons = <<last.persons[2]>>
    /\ store = last.store
    /\ store = Item(mapToJSON(last.persons))

\* C9: after mutating calls that all succeeded, a DataManager constructed
\* afresh loads a collection equal, record by record and in the same order,
\* to the live collection
C9_RoundTrip ==
    (failures = 0 /\ last.op \in Mutating /\ last.outcome = "ok")
    => loadPersons(store, nextId, now) = persons

\* C10: no two records of the live collection have the same id, and a record
\* that stays in the collection keeps its id
C10_UniqueStableIds ==
    /\ \A i, j \in 1..Len(persons) : i # j => persons[i].id # persons[j].id
    /\ (last.op = "updatePerson" /\ last.outcome = "ok")
       => \A i \in 1..Len(persons) : persons[i].id = last.persons[i].id

\* the number of the snapshot that carries id: the n-th snapshot made
SnapshotNumber(id) == CHOOSE n \in SnapshotNumbers : generateBackupId[n] = id

\* C11: the stored history holds at most 5 snapshots, each made later than
\* those behind it and stamped no earlier, and a snapshot added to a history
\* of 5 goes to the front while the one at the back, the oldest, is dropped
C11_HistoryBound ==
    /\ Len(backupStore) <= 5
    /\ \A i, j \in 1..Len(backupStore) :
           i < j => /\ SnapshotNumber(backupStore[i].id) > SnapshotNumber(backupStore[j].id)
                    /\ DateParse[backupStore[i].timestamp]
                           >= DateParse[backupStore[j].timestamp]
    /\ (/\ last.op \in {"createBackup", "autoBackup"}
        /\ last.write = "ok"
        /\ Len(last.backupStore) = 5)
       => /\ backupStore[1].data = last.data
          /\ \A k \in 1..5 : backupStore[1].id # last.backupStore[k].id
          /\ SubSeq(backupStore, 2, 5) = SubSeq(last.backupStore, 1, 4)

\* a sixth snapshot, made a millisecond after the fifth, was added to a full
\* history by createBackup
C11_Witness ==
    /\ last.op = "createBackup"
    /\ last.write = "ok"
    /\ Len(last.backupStore) = 5
    /\ Len(backupStore) = 5
    /\ backupStore[1].timestamp # backupStore[2].timestamp
    /\ backupStore[5] = last.backupStore[4]

\* C12: restoreBackup of the id createBackup(data) has just returned gives
\* back data; and restoreBackup of a snapshot whose stored data was altered
\* after createBackup wrote it, its checksum left as it was, ends in the
\* checksum error (a STORAGE_ERROR) and returns nothing
C12_RoundTripAndTamper ==
    /\ (last.op = "createBackup" /\ last.outcome = "ok")
       => /\ restoreBackupOutcome(backupStore, backupStore[1].id) = "ok"
          /\ restoreBackup(backupStore, backupStore[1].id) = last.data
    /\ (/\ last.op = "restoreBackup"
        /\ last.index >= 0
        /\ backupStore[last.index + 1].data # last.backupStore[last.index + 1].data)
       => last.outcome = "STORAGE_ERROR"

\* the snapshot of the record named AL was edited to name it B-, and
\* restoreBackup returned the edited data
C12_Witness ==
    /\ last.op = "restoreBackup"
    /\ last.outcome = "ok"
    /\ last.index >= 0
    /\ last.backupStore[last.index + 1].data = <<RecordAl>>
    /\ backupStore[last.index + 1].data = <<RecordBHyphen>>
    /\ last.data = <<RecordBHyphen>>

\* C13: a call that reaches savePersons adds a snapshot through it only when
\* the history savePersons finds is empty or the collection being saved
\* differs from the data of its first snapshot, the snapshot added then holds
\* the collection being saved, and a collection equal to the data of the
\* first snapshot adds none.  (replaceAllData has put a snapshot of the
\* former collection at the front before savePersons runs.)
C13_SnapshotOnlyOnChange ==
    (last.op \in Mutating /\ last.write # "none") =>
        LET fresh == {i \in 1..Len(backupStore) :
                         \A k \in 1..Len(last.backupStore) :
                             backupStore[i].id # last.backupStore[k].id}
            replacing == last.op = "replaceAllData"
            added == Cardinality(fresh) - (IF replacing THEN 1 ELSE 0)
            saved == mapToJSON(persons)
            empty == ~replacing /\ last.backupStore = <<>>
            seen == IF replacing THEN mapToJSON(last.persons)
                    ELSE last.backupStore[1].data
        IN  /\ added \in {0, 1}
            /\ added = 1 => /\ IF empty THEN TRUE ELSE saved # seen
                            /\ backupStore[1].data = saved
            /\ (IF empty THEN FALSE ELSE saved = seen) => added = 0

\* a collection of one record was saved a second time, by an update that
\* changed nothing, and the history stayed as it was
C13_Witness ==
    /\ last.op = "updatePerson"
    /\ last.write = "ok"
    /\ Len(persons) = 1
    /\ last.backupStore # <<>>
    /\ mapToJSON(persons) = last.backupStore[1].data
    /\ backupStore = last.backupStore

\* C14: after a successful replaceAllData(records) the live collection is
\* records, the stored collection is its serialization, and the history holds
\* a snapshot, made by this call, of the collection as it was before the call;
\* the snapshot comes first: it is there whenever the call got as far as
\* replacing the collection, and a call that could not write it has replaced
\* nothing
C14_SnapshotThenReplace ==
    last.op = "replaceAllData" =>
        LET snapshot == \E i \in 1..Len(backupStore) :
                            /\ backupStore[i].data = mapToJSON(last.persons)
                            /\ \A k \in 1..Len(last.backupStore) :
                                   backupStore[i].id # last.backupStore[k].id
        IN  /\ last.outcome = "ok" => /\ persons = last.data
                                      /\ store = Item(mapToJSON(last.data))
                                      /\ snapshot
            /\ last.write # "none" => snapshot
            /\ last.write = "none" => /\ last.outcome # "ok"
                                      /\ persons = last.persons
                                      /\ store = last.store
                                      /\ backupStore = last.backupStore

\* a collection of one record was replaced by two others, and the snapshot of
\* the one record stands second in the history, behind that of the two
C14_Witness ==
    /\ last.op = "replaceAllData"
    /\ last.outcome = "ok"
    /\ Len(last.persons) = 1
    /\ Len(persons) = 2
    /\ Len(backupStore) >= 2
    /\ backupStore[1].data = mapToJSON(persons)
    /\ backupStore[2].data = mapToJSON(last.persons)
    /\ backupStore[2].data # backupStore[1].data

\* C15: importData of a file that importFromFile accepts, some but not all of
\* whose entries fail the structural check, is not rejected: it returns one
\* candidate record per entry, and validRecords and invalidRecords add up to
\* the number of entries
C15_PartialImportAccepted ==
    (/\ last.op = "importData"
     /\ importFromFileOutcome(last.file) = "ok"
     /\ invalidRecords(last.file.data) > 0
     /\ validRecords(last.file.data) > 0)
    => /\ last.outcome = "ok"
       /\ Len(last.data) = Len(last.file.data)
       /\ validRecords(last.file.data) + invalidRecords(last.file.data)
              = Len(last.file.data)

\* a file of one sound entry and one without an email was refused whole
C15_Witness ==
    /\ last.op = "importData"
    /\ last.file = File(TRUE, "object", "array", <<EntryAna, EntryNoEmail>>, Undefined)
    /\ last.outcome = "VALIDATION_ERROR"
    /\ last.errors = <<[record |-> 2, field |-> "email"]>>
    /\ validRecords(last.file.data) = 1
    /\ invalidRecords(last.file.data) = 1

\* C16: importFromFile rejects a file that is neither JSON-typed nor
\* .json-named, rejects content without a data array, rejects with a
\* corruption error (STORAGE_ERROR) when the content has a checksum property
\* that differs from the checksum recomputed over data, accepts content with
\* no checksum, and resolves with exactly the data array of the file
C16_ImportFromFile ==
    last.op = "importFromFile"
    => /\ ~last.file.json => last.outcome \notin {"ok"}
       /\ last.file.shape # "array" => last.outcome \notin {"ok"}
       /\ (/\ last.file.json
           /\ last.file.shape = "array"
           /\ last.file.checksum # Undefined
           /\ last.file.checksum # calculateChecksum(last.file.data))
          => last.outcome = "STORAGE_ERROR"
       /\ (/\ last.file.json
           /\ last.file.shape = "array"
           /\ last.file.checksum = Undefined)
          => last.outcome = "ok"
       /\ last.outcome = "ok" => last.data = last.file.data

\* C16, amended: the checksums are compared only when the checksum of the
\* content is truthy; content whose checksum is absent or empty is accepted
\* without a comparison, whatever its data
C16_ImportFromFileTruthy ==
    last.op = "importFromFile"
    => /\ ~last.file.json => last.outcome = "VALIDATION_ERROR"
       /\ last.file.shape # "array" => last.outcome = "VALIDATION_ERROR"
       /\ (/\ last.file.json
           /\ last.file.shape = "array"
           /\ ~Falsy(last.file.checksum)
           /\ last.file.checksum # calculateChecksum(last.file.data))
          => last.outcome = "STORAGE_ERROR"
       /\ (/\ last.file.json
           /\ last.file.shape = "array"
           /\ (Falsy(last.file.checksum)
               \/ last.file.checksum = calculateChecksum(last.file.data)))
          => last.outcome = "ok"
       /\ last.outcome = "ok" => last.data = last.file.data

\* a file whose checksum is not the one of its data was refused as corrupt
C16_Witness ==
    /\ last.op = "importFromFile"
    /\ last.file = File(TRUE, "object", "array", <<EntryAna>>, WrongChecksum)
    /\ calculateChecksum(<<EntryAna>>) # WrongChecksum
    /\ last.outcome = "STORAGE_ERROR"
    /\ last.data = <<>>

\* C17: the file exportData produces from the collection is accepted by
\* importData, and the candidate records it returns are field-equal, in the
\* same order, to the collection at export time
C17_ExportImportRoundTrip ==
    (/\ last.op = "importData"
     /\ last.file = exportToFile(mapToJSON(persons)))
    => /\ last.outcome = "ok"
       /\ last.data = persons

\* the export of a collection holding a record whose createdAt is an Invalid
\* Date was imported again: accepted, but the candidate's createdAt is the
\* time of the import
C17_Witness ==
    /\ last.op = "importData"
    /\ last.file = exportToFile(mapToJSON(persons))
    /\ last.outcome = "ok"
    /\ Len(persons) = 1
    /\ persons[1].createdAt = InvalidDate
    /\ last.data[1].createdAt = now
    /\ [last.data[1] EXCEPT !.createdAt = InvalidDate] = persons[1]

C19_QuotaErrorSurfaces ==
    (/\ last.op \in {"addPerson", "updatePerson", "deletePerson", "replaceAllData",
                     "clearAllPersons", "restoreFromBackup"}
     /\ last.write = "QuotaExceededError")
    => last.outcome = "STORAGE_QUOTA_ERROR"

\* clearAllPersons met a full store and failed with the generic STORAGE_ERROR
C19_Witness ==
    /\ last.op = "clearAllPersons"
    /\ last.write = "QuotaExceededError"
    /\ last.outcome = "STORAGE_ERROR"
    /\ last.persons # <<>>

\* C20: when the item under listaPessoas cannot be parsed or mapped to
\* records at construction, loadPersons throws a STORAGE_ERROR, the in-memory
\* collection is empty, and the item is left exactly as it was
C20_LoadFailure ==
    (/\ last.op = "loadPersons"
     /\ last.store.present
     /\ last.store.fault # "none")
    => /\ last.outcome = "STORAGE_ERROR"
       /\ persons = <<>>
       /\ store = last.store

\* a DataManager was constructed over a stored array of one record followed
\* by a null entry
C20_Witness ==
    /\ last.op = "loadPersons"
    /\ last.store.present
    /\ last.store.fault = "entry"
    /\ Len(last.store.data) = 1
    /\ last.outcome = "STORAGE_ERROR"
    /\ persons = <<>>
    /\ store = last.store

\* C21: when addPerson, updatePerson and deletePerson calls are started without
\* awaiting one another, every call's outcome and the collection in memory and
\* in the store are those of running the calls one at a time in the order
\* they were started
C21_SerialOrder ==
    (\A k \in 1..Len(jobs) : jobs[k].pc \in {"await", "settled"})
    => /\ persons = Serial[Len(jobs)]
       /\ \A k \in 1..Len(jobs) :
              jobs[k].outcome = refusal(Serial[k - 1], jobs[k].op, jobs[k].index,
                                        jobs[k].person)
       /\ store.present => store = Item(mapToJSON(Serial[Len(jobs)]))

\* a second addPerson with the first one's phone was started while the first
\* was still at its await, and was refused as a duplicate
C21_Witness ==
    /\ Len(jobs) = 2
    /\ jobs[1].op = "addPerson"
    /\ jobs[1].pc = "await"
    /\ jobs[2].op = "addPerson"
    /\ jobs[2].person.telefone = jobs[1].person.telefone
    /\ jobs[2].outcome = "DUPLICATE_ERROR"
    /\ persons = <<jobs[1].person>>

\* C24: addPerson and updatePerson reject as a duplicate a valid record whose
\* telefone has the same digits as the telefone of another record of the
\* collection, whatever the punctuation of the two
C24_DuplicateByDigits ==
    (/\ last.op \in {"addPerson", "updatePerson"}
     /\ last.op = "updatePerson" => ~IndexOutOfRange(last.persons, last.index)
     /\ validate(last.person) = <<>>
     /\ \E i \in 1..Len(last.persons) :
            /\ i - 1 # last.index
            /\ SelectSeq(Chars[last.persons[i].telefone], IsDigit)
                   = SelectSeq(Chars[last.person.telefone], IsDigit))
    => last.outcome = "DUPLICATE_ERROR"

\* a record with telefone 11999999999 was added next to one with telefone
\* (11) 99999-9999
C24_Witness ==
    /\ last.op = "addPerson"
    /\ last.outcome = "ok"
    /\ Len(last.persons) = 1
    /\ last.persons[1].telefone = PhoneA
    /\ last.person.telefone = PhoneB
    /\ Len(persons) = 2

\* C26: the nome of every record of the live collection and of the stored
\* collection equals its own upper-casing, however it was typed in the form
\* or written in an import file
C26_UpperCaseNames ==
    /\ \A i \in 1..Len(persons) : persons[i].nome = UpperCase[persons[i].nome]
    /\ \A i \in 1..Len(store.data) : store.data[i].nome = UpperCase[store.data[i].nome]

\* an import file's entry named bob is in the collection and in the store
\* as BOB
C26_Witness ==
    /\ last.op = "replaceAllData"
    /\ last.outcome = "ok"
    /\ UpperCase[NameBob] # NameBob
    /\ \E i \in 1..Len(persons) :
           /\ persons[i].nome = UpperCase[NameBob]
           /\ store.data[i].nome = UpperCase[NameBob]

\* C27: for a Person r that passes validate, Person.fromJSON(r.toJSON()) has
\* the id, nome, dataNascimento, telefone, email, createdAt and updatedAt of
\* r, and passes validate
C27_RecordRoundTrip ==
    (last.op = "fromJSON" /\ validate(last.person) = <<>>)
    => /\ last.data[1] = last.person
       /\ validate(last.data[1]) = <<>>

\* a valid Person created before it was last updated, both before the round
\* trip, came back field for field
C27_Witness ==
    /\ last.op = "fromJSON"
    /\ validate(last.person) = <<>>
    /\ last.person.nome = UpperCase[NameAna]
    /\ last.person.createdAt < last.person.updatedAt
    /\ last.person.updatedAt <= now
    /\ last.person.createdAt < now
    /\ last.data = <<last.person>>

\* C28: validate() returns one error entry for each failing field and none
\* for a passing field, in the order nome, dataNascimento, telefone, email,
\* and isValid is true exactly when the list is empty
C28_OneErrorPerField ==
    last.op = "validate"
    => LET errors == last.errors
           fails == <<~validateName[last.person.nome],
                      ~validateBirthDate[last.person.dataNascimento],
                      ~validatePhone[last.person.telefone],
                      ~validateEmail[last.person.email]>>
           fields == <<"nome", "dataNascimento", "telefone", "email">>
           rank(k) == CHOOSE f \in 1..4 : fields[f] = errors[k].field
       IN  /\ \A k \in 1..Len(errors) : errors[k].field \in {fields[f] : f \in 1..4}
           /\ \A f \in 1..4 :
                  Cardinality({k \in 1..Len(errors) : errors[k].field = fields[f]})
                      = IF fails[f] THEN 1 ELSE 0
           /\ \A k \in 1..(Len(errors) - 1) : rank(k) < rank(k + 1)
           /\ (last.outcome = "true") <=> (errors = <<>>)

\* a Person with a short nome and a bad email, its date and phone sound
C28_Witness ==
    /\ last.op = "validate"
    /\ last.person.nome = UpperCase[NameShort]
    /\ last.person.email = EmailBad
    /\ last.errors = <<ErrNome, ErrEmail>>
    /\ last.outcome = "false"

\* C29: for a calendar-valid DD/MM/YYYY date with year in 1900..2100,
\* validateBirthDate returns true exactly when the date is not after today
\* and the age in whole years is at most 120
C29_BirthDateByAge ==
    (/\ last.op = "validateBirthDate"
     /\ parseBrazilianDate[last.person.dataNascimento] # NoDate)
    => LET d == parseBrazilianDate[last.person.dataNascimento]
           afterToday == \/ d[3] > Today.year
                         \/ d[3] = Today.year /\ d[2] > Today.month
                         \/ d[3] = Today.year /\ d[2] = Today.month /\ d[1] > Today.day
           birthdayAhead == \/ d[2] > Today.month
                            \/ d[2] = Today.month /\ d[1] > Today.day
           age == Today.year - d[3] - (IF birthdayAhead THEN 1 ELSE 0)
       IN  (last.outcome = "true") <=> (~afterToday /\ age <= 120)

\* 01/12/1905 was refused on 06/11/2026, when the person is 120
C29_Witness ==
    /\ last.op = "validateBirthDate"
    /\ last.person.dataNascimento = DateAged120
    /\ parseBrazilianDate[DateAged120] = <<1, 12, 1905>>
    /\ Today = [day |-> 6, month |-> 11, year |-> 2026]
    /\ last.outcome = "false"

C23_DeleteOnlyConfirmed ==
    [][(jobs # <<>> /\ jobs[1].op = "removePerson")
           => \/ jobs[1].pc = "resolved" /\ jobs[1].outcome = "confirm"
              \/ UNCHANGED <<persons, store, app>>]_vars

\* a cancelled removal has returned: the record is still there, and the undo
\* slot still holds the record of an earlier, confirmed removal
C23_Witness ==
    /\ last # Idle
    /\ last.op = "removePerson"
    /\ last.outcome = "cancelled"
    /\ last.index < Len(persons)
    /\ persons[last.index + 1] = last.person
    /\ persons = last.persons
    /\ store = last.store
    /\ app.lastDeletedPerson # NoDeletion

\* C22: when undoDelete follows a confirmed removePerson(i) with no other
\* operation in between, the collection again contains a record with the id
\* and the field values of the deleted one, and holds the same set of records
\* as before the deletion
C22_UndoRestores ==
    (last # Idle /\ last.op = "undoDelete" /\ last.index >= 0)
        => /\ \E i \in 1..Len(persons) : persons[i] = last.person
           /\ Range(persons) = Range(last.data)

\* an undo right after a confirmed removal of the first of two records
C22_Witness ==
    /\ last # Idle
    /\ last.op = "undoDelete"
    /\ last.index = 0
    /\ Len(last.data) = 2
    /\ last.data[1] = last.person
    /\ Len(last.persons) = 1

\* C25: searchPersons(q) returns, in collection order and without changing
\* the collection, exactly the records whose nome or email contains q
\* case-insensitively or whose stored telefone contains q as it is; for an
\* empty or non-string q it returns the whole collection
C25_SearchByQuery ==
    (last # Idle /\ last.op = "searchPersons")
        => LET q == last.person.nome
           IN  /\ persons = last.persons
               /\ last.data =
                      IF q = "" \/ ~IsString(q) THEN persons
                      ELSE SelectSeq(persons, LAMBDA r :
                               \/ includes(toLowerCase(Chars[r.nome]),
                                           toLowerCase(Chars[q]))
                               \/ includes(toLowerCase(Chars[r.email]),
                                           toLowerCase(Chars[q]))
                               \/ includes(Chars[r.telefone], Chars[q]))

\* C25, amended: the same with t in place of q in all three tests, t being q
\* lower-cased and stripped of the whitespace around it
C25_SearchByTrimmedQuery ==
    (last # Idle /\ last.op = "searchPersons")
        => LET q == last.person.nome
               t == IF IsString(q) THEN trim(toLowerCase(Chars[q])) ELSE <<>>
           IN  /\ persons = last.persons
               /\ last.data =
                      IF q = "" \/ ~IsString(q) THEN persons
                      ELSE SelectSeq(persons, LAMBDA r :
                               \/ includes(toLowerCase(Chars[r.nome]), t)
                               \/ includes(toLowerCase(Chars[r.email]), t)
                               \/ includes(Chars[r.telefone], t))

\* a query with a space before it finds one of two records
C25_Witness ==
    /\ last # Idle
    /\ last.op = "searchPersons"
    /\ last.person.nome = QuerySpaced
    /\ Len(last.persons) = 2
    /\ Len(last.data) = 1

\* C31: validatePhone rejects a phone whose first two digits are 99, as it
\* rejects one whose first two digits are 01
C31_AreaCode99Rejected ==
    (last # Idle /\ last.op = "validatePhone"
        /\ last.person.telefone \in {PhoneArea01, PhoneArea99})
        => last.outcome = "false"

\* validatePhone("(99) 99999-9999") has returned
C31_Witness ==
    /\ last # Idle
    /\ last.op = "validatePhone"
    /\ last.person.telefone = PhoneArea99
    /\ parseInt(SubSeq(SelectSeq(Chars[PhoneArea99], IsDigit), 1, 2)) = 99

\* C32: when editPerson loaded the record with id X into the form and only
\* other records were removed before the submission completes, the submission
\* changes no record but the one with id X (or fails and changes none)
C32_EditTargetKept ==
    (/\ last # Idle
     /\ last.op = "handleFormSubmit"
     /\ last.index # NoEdit
     /\ \E i \in 1..Len(last.persons) : last.persons[i].id = app.editing.id)
        => \A i \in 1..Len(persons) :
               persons[i] # last.persons[i] => last.persons[i].id = app.editing.id

\* a submission in edit mode after a record in front of the loaded one was
\* removed: the loaded record is no longer at currentEditIndex
C32_Witness ==
    /\ last # Idle
    /\ last.op = "handleFormSubmit"
    /\ last.index # NoEdit
    /\ \E i \in 1..Len(last.persons) :
           /\ last.persons[i].id = app.editing.id
           /\ i - 1 < last.index

\* C33: a timer never removes an error notification that was shown without a
\* duration option
C33_ErrorsStay ==
    (last # Idle /\ last.op = "dismiss" /\ last.outcome = "timer")
        => \A k \in 1..Len(last.data) :
               last.data[k].type = "error" => last.data[k].asked.given

\* an error notification shown without options is in the list and five
\* seconds have passed
C33_Witness ==
    /\ now >= defaultDuration
    /\ \E k \in 1..Len(app.notifications) :
           /\ app.notifications[k].type = "error"
           /\ app.notifications[k].asked = NoOptions

C36_CardsCarryIndex ==
    (last # Idle /\ last.op = "renderPersonList")
        => LET searchQuery == last.person.nome
               matching == SelectSeq([i \in 1..Len(persons) |-> i], LAMBDA i :
                               \/ Falsy(searchQuery)
                               \/ searchPersons(<<persons[i]>>, searchQuery) # <<>>)
           IN  /\ Len(last.data) = Len(matching)
               /\ \A k \in 1..Len(last.data) :
                      /\ last.data[k].person = persons[matching[k]]
                      /\ last.data[k].realIndex = matching[k] - 1

\* a filtered list whose only card shows the second record of the collection
C36_Witness ==
    /\ last # Idle
    /\ last.op = "renderPersonList"
    /\ last.person.nome = QueryAna
    /\ Len(persons) = 2
    /\ Len(last.data) = 1
    /\ last.data[1].person = persons[2]

\* C35: restoreFromBackup(id) of a snapshot that exists and whose checksum
\* matches makes the live and the stored collection equal to the snapshot's
\* data; for an unknown id or a checksum that does not match it fails and
\* leaves the live collection, the stored collection and the history as they
\* were
C35_RestoreFromBackup ==
    (last # Idle /\ last.op = "restoreFromBackup")
        => IF last.index >= 0
              /\ calculateChecksum(last.backupStore[last.index + 1].data)
                     = last.backupStore[last.index + 1].checksum
           THEN /\ mapToJSON(persons) = last.backupStore[last.index + 1].data
                /\ store = Item(last.backupStore[last.index + 1].data)
           ELSE /\ last.outcome # "ok"
                /\ persons = last.persons
                /\ store = last.store
                /\ backupStore = last.backupStore

\* a restore of an older snapshot replaced a collection that differed from it
C35_Witness ==
    /\ last # Idle
    /\ last.op = "restoreFromBackup"
    /\ last.index >= 1
    /\ last.outcome = "ok"
    /\ mapToJSON(last.persons) # last.backupStore[last.index + 1].data

\* C37: after every successful addPerson, updatePerson or deletePerson during
\* which no write was refused, the newest snapshot of the backup history holds
\* the collection just written under listaPessoas
C37_SnapshotAfterChange ==
    [][(/\ last = Idle
        /\ last'.op \in {"addPerson", "updatePerson", "deletePerson"}
        /\ last'.outcome = "ok"
        /\ failures' = failures)
       => (/\ backupStore' # <<>>
           /\ backupStore'[1].data = store'.data)]_vars

\* an updatePerson that succeeded with every write done and a changed record
C37_Witness ==
    /\ last.op = "updatePerson"
    /\ last.outcome = "ok"
    /\ last.write = "ok"
    /\ persons # last.persons
    /\ store.data = mapToJSON(persons)
    /\ backupStore # <<>>
    /\ backupStore[1].data = mapToJSON(last.persons)
    /\ backupStore[1].data # store.data

\* C38: when addPerson, updatePerson or deletePerson reaches savePersons, the
\* write of the automatic snapshot is refused and the write to listaPessoas
\* is done, the call completes successfully and the stored collection is the
\* collection in memory
C38_BackupFailureHarmless ==
    [][(/\ last = Idle
        /\ last'.op \in {"addPerson", "updatePerson", "deletePerson"}
        /\ last'.write = "ok"
        /\ autoBackupNeeded(backupStore, mapToJSON(persons'))
        /\ failures' = failures + 1)
       => (/\ last'.outcome = "ok"
           /\ store' = Item(mapToJSON(persons'))
           /\ backupStore' = backupStore)]_vars

\* an addPerson that completed although its snapshot, which the history
\* lacked, was not written
C38_Witness ==
    /\ last.op = "addPerson"
    /\ last.outcome = "ok"
    /\ last.write = "ok"
    /\ persons = Append(last.persons, last.person)
    /\ autoBackupNeeded(last.backupStore, mapToJSON(persons))
    /\ backupStore = last.backupStore
    /\ store = Item(mapToJSON(persons))

\* C39: once the user has left the modal (confirm, cancel, Escape or a click
\* on the overlay), every promise show() has returned is settled, with true
\* by confirm and with false otherwise; a promise whose modal was replaced
\* by a second show() included
C39_PromisesSettled ==
    ~app.isOpen =>
        \A j \in 1..Len(jobs) :
            /\ jobs[j].pc = "settled"
            /\ jobs[j].outcome \in ModalExits

\* two show() calls with no exit between them, then the confirm button: the
\* second promise is settled with true, the first is still pending
C39_Witness ==
    /\ last.op = "confirm"
    /\ last.index = 1
    /\ ~app.isOpen
    /\ Len(jobs) = 2
    /\ jobs[1].pc = "pending"
    /\ jobs[2].pc = "settled"
    /\ confirmed(jobs[2].outcome)

====
